---------------------------- MODULE Spec2Model ----------------------------
(***************************************************************************)
(* Head-to-head cricket statistics: the tournament classifier and the      *)
(* aggregation loop of the two source variants, with the loader, the       *)
(* queries over the aggregates and main,                                   *)
(*   "h2h"    = cricket_head_to_head.CricketHeadToHead                     *)
(*   "report" = cricket_report_generator.CricketReportGenerator           *)
(* Strings the code inspects character by character (tournament names and  *)
(* the bucket labels built from them) are sequences of one-character       *)
(* strings; strings the code only compares or uses as keys (status, mode,  *)
(* ids, opponent names, avatars) are TLA+ strings.                         *)
(***************************************************************************)
EXTENDS Integers, Sequences, FiniteSets, TLC

VARIABLES
    variant,             \* which of the two classes is running
    data,                \* self.data: the records loaded so far, in order
    head_to_head_stats,  \* dict opponent name -> record, in insertion order
    tournament_stats,    \* dict label -> dict opponent name -> record
    tournament_types,    \* set of main types seen
    opponent_pics,       \* dict opponent name -> avatar (report variant)
    player_pic_url,      \* avatar of the tracked player (report variant)
    idx,                 \* number of records of self.data the loop has passed
    processed,           \* the local counter of calculate_statistics
    pc,                  \* control: where the last loop iteration or call ended
    arg,                 \* the argument of the last parse_tournament_type call
    ret,                 \* the pair it returned
    taken,               \* history: what the record just taken from self.data held
    other_results,       \* history: per record, the matches counted in it whose
                         \* tracked-player result was neither WIN nor LOSS
    trace                \* history: the steps main has gone through, in order

vars == <<variant, data, head_to_head_stats, tournament_stats, tournament_types,
          opponent_pics, player_pic_url, idx, processed, pc, arg, ret, taken,
          other_results, trace>>

(* the aggregate state of an instance *)
aggregates == <<head_to_head_stats, tournament_stats, tournament_types,
                opponent_pics, player_pic_url>>

Variants == {"h2h", "report"}

(***************************************************************************)
(* Bounds of the model.                                                    *)
(***************************************************************************)
MaxMatches == 2
MaxPieces == 4

(***************************************************************************)
(* Character strings.                                                      *)
(***************************************************************************)
IBC_PRO_360 == <<"i","B","C"," ","P","R","O"," ","3","6","0">>
IBC_360 == <<"i","B","C"," ","3","6","0">>
SEP == <<" ","-"," ">>
SPACE == <<" ">>
S_OTHER == <<"O","t","h","e","r">>
S_UNKNOWN == <<"U","n","k","n","o","w","n">>
N500 == <<"5","0","0">>
N250 == <<"2","5","0">>
SOMETHING == <<"S","o","m","e","t","h","i","n","g">>
BLITZ == <<"B","l","i","t","z">>
WEEKLY_CUP == <<"W","e","e","k","l","y"," ","C","u","p">>
PRO_500_SOMETHING == IBC_PRO_360 \o SEP \o N500 \o SPACE \o SOMETHING
IBC_250_BLITZ == IBC_360 \o SEP \o N250 \o SPACE \o BLITZ

(* A value read from a JSON object: the key is missing, holds null, or     *)
(* holds a string.                                                         *)
Missing == [k |-> "missing", s |-> <<>>]
Null == [k |-> "null", s |-> <<>>]
Str(s) == [k |-> "str", s |-> s]

(* tournament_match_details, or tournament_type_details in it, holds null: *)
(* there is no object to look the name up in                              *)
NullDetails == [k |-> "null_details", s |-> <<>>]

(* dict.get(key, default) on such a value *)
GetOr(v, default) == IF v.k = "missing" THEN default ELSE v

(* Python truthiness of None and of a string: `not x` *)
Falsy(v) == v.k = "null" \/ (v.k = "str" /\ v.s = <<>>)

(* `t in s` for strings *)
Contains(s, t) ==
    \E i \in 0..Len(s) : i + Len(t) <= Len(s) /\ SubSeq(s, i + 1, i + Len(t)) = t

(* str.find: index of the first occurrence of t in s at or after i          *)
(* (1-based), 0 when there is none                                         *)
RECURSIVE FindFrom(_, _, _)
FindFrom(s, t, i) ==
    IF i + Len(t) - 1 > Len(s) THEN 0
    ELSE IF SubSeq(s, i, i + Len(t) - 1) = t THEN i
    ELSE FindFrom(s, t, i + 1)

Find(s, t) == FindFrom(s, t, 1)

(* str.split(sep) with an explicit non-empty separator: leftmost,          *)
(* non-overlapping occurrences; empty pieces are kept.                     *)
RECURSIVE Split(_, _)
Split(s, sep) ==
    LET i == Find(s, sep)
    IN  IF i = 0
        THEN <<s>>
        ELSE <<SubSeq(s, 1, i - 1)>> \o Split(SubSeq(s, i + Len(sep), Len(s)), sep)


(***************************************************************************)
(* The tournament classifier.                                              *)
(***************************************************************************)

(* The subtype of a labelled tournament: label - <parts[1].split(" ")[0]>,  *)
(* or label - Unknown when split(" - ") yields a single part.  The same     *)
(* five lines serve both labels in both variants.                          *)
subtype_of(label, tournament_name) ==
    LET parts == Split(tournament_name, SEP)
    IN  IF Len(parts) > 1
        THEN label \o SEP \o Split(parts[2], SPACE)[1]
        ELSE label \o SEP \o S_UNKNOWN

(* a name with no recognised label filed under the subtype "Unknown" *)
H2H_parse_tournament_type_UnknownSub(t) ==
    IF Falsy(t) THEN <<S_OTHER, S_UNKNOWN>>
    ELSE IF Contains(t.s, IBC_PRO_360)
         THEN <<IBC_PRO_360, subtype_of(IBC_PRO_360, t.s)>>
    ELSE IF Contains(t.s, IBC_360)
         THEN <<IBC_360, subtype_of(IBC_360, t.s)>>
    ELSE <<S_OTHER, S_UNKNOWN>>

(* the two label tests in the other order: "iBC 360" asked first *)
H2H_parse_tournament_type_360First(t) ==
    IF Falsy(t) THEN <<S_OTHER, S_UNKNOWN>>
    ELSE IF Contains(t.s, IBC_360)
         THEN <<IBC_360, subtype_of(IBC_360, t.s)>>
    ELSE IF Contains(t.s, IBC_PRO_360)
         THEN <<IBC_PRO_360, subtype_of(IBC_PRO_360, t.s)>>
    ELSE <<S_OTHER, t.s>>

(* CricketHeadToHead.parse_tournament_type; t is None or a string *)
H2H_parse_tournament_type(t) ==
    IF Falsy(t) THEN <<S_OTHER, S_UNKNOWN>>
    ELSE IF Contains(t.s, IBC_PRO_360)
         THEN <<IBC_PRO_360, subtype_of(IBC_PRO_360, t.s)>>
    ELSE IF Contains(t.s, IBC_360)
         THEN <<IBC_360, subtype_of(IBC_360, t.s)>>
    ELSE <<S_OTHER, t.s>>

(* the last branch with main type and subtype assigned the wrong way round *)
RG_parse_tournament_type_Swapped(t) ==
    IF Falsy(t) THEN <<S_OTHER, S_UNKNOWN>>
    ELSE IF Contains(t.s, IBC_PRO_360)
         THEN <<IBC_PRO_360, subtype_of(IBC_PRO_360, t.s)>>
    ELSE IF Contains(t.s, IBC_360) /\ ~Contains(t.s, IBC_PRO_360)
         THEN <<IBC_360, subtype_of(IBC_360, t.s)>>
    ELSE <<t.s, S_OTHER>>

(* CricketReportGenerator.parse_tournament_type: the second test also asks *)
(* that "iBC PRO 360" is not in the name.                                  *)
RG_parse_tournament_type(t) ==
    IF Falsy(t) THEN <<S_OTHER, S_UNKNOWN>>
    ELSE IF Contains(t.s, IBC_PRO_360)
         THEN <<IBC_PRO_360, subtype_of(IBC_PRO_360, t.s)>>
    ELSE IF Contains(t.s, IBC_360) /\ ~Contains(t.s, IBC_PRO_360)
         THEN <<IBC_360, subtype_of(IBC_360, t.s)>>
    ELSE <<S_OTHER, t.s>>

parse_tournament_type(v, t) ==
    IF v = "h2h" THEN H2H_parse_tournament_type(t) ELSE RG_parse_tournament_type(t)

(***************************************************************************)
(* Tournament names handed to the classifier: every concatenation of at    *)
(* most MaxPieces pieces, the empty string and None.                       *)
(***************************************************************************)
Pieces == {IBC_PRO_360, IBC_360, SEP, SPACE, N500, S_OTHER, WEEKLY_CUP,
           PRO_500_SOMETHING}

RECURSIVE Concats(_)
Concats(n) ==
    IF n = 0 THEN {<<>>}
    ELSE LET shorter == Concats(n - 1)
         IN  shorter \cup {s \o p : s \in shorter, p \in Pieces}

NameArgs == {Null} \cup {Str(s) : s \in Concats(MaxPieces)}


(***************************************************************************)
(* Python dicts keep insertion order: a dict is a sequence of entries      *)
(* [key, val] with pairwise distinct keys.                                 *)
(***************************************************************************)
Keys(d) == {d[i].key : i \in DOMAIN d}
Has(d, k) == k \in Keys(d)
Lookup(d, k) == d[CHOOSE i \in DOMAIN d : d[i].key = k].val
Put(d, k, v) ==
    IF Has(d, k)
    THEN [i \in DOMAIN d |-> IF d[i].key = k THEN [key |-> k, val |-> v] ELSE d[i]]
    ELSE Append(d, [key |-> k, val |-> v])

(* the default factory of both defaultdicts' innermost level *)
ZeroRec == [wins |-> 0, losses |-> 0, total_matches |-> 0]

(* defaultdict lookup d[k]: the entry, created from the factory if absent *)
GetDefault(d, k, default) == IF Has(d, k) THEN Lookup(d, k) ELSE default

(* self.head_to_head_stats[name][field] += 1 *)
IncStat(stats, name, field) ==
    LET rec == GetDefault(stats, name, ZeroRec)
    IN  Put(stats, name, [rec EXCEPT ![field] = @ + 1])

(* self.tournament_stats[label][name][field] += 1 *)
IncTournamentStat(tstats, label, name, field) ==
    Put(tstats, label, IncStat(GetDefault(tstats, label, <<>>), name, field))

(***************************************************************************)
(* Match records.                                                          *)
(***************************************************************************)
PLAYER_ID == "7899a991"      \* self.player_id, shortened
NoKey == "<none>"            \* what dict.get(key) gives for a missing key
NullKey == "<null>"          \* what it gives for a key that holds null

(* the loop without its else: every participant is taken as the opponent *)
RECURSIVE ScanUsers_NoElse(_, _, _, _)
ScanUsers_NoElse(users, i, myself, opponent) ==
    IF i > Len(users) THEN [myself |-> myself, opponent |-> opponent]
    ELSE ScanUsers_NoElse(users, i + 1,
             IF users[i].user_id = PLAYER_ID THEN <<users[i]>> ELSE myself,
             <<users[i]>>)

(* the scan that keeps the first other participant it meets *)
RECURSIVE ScanUsers_FirstOpponent(_, _, _, _)
ScanUsers_FirstOpponent(users, i, myself, opponent) ==
    IF i > Len(users) THEN [myself |-> myself, opponent |-> opponent]
    ELSE IF users[i].user_id = PLAYER_ID
         THEN ScanUsers_FirstOpponent(users, i + 1, <<users[i]>>, opponent)
         ELSE ScanUsers_FirstOpponent(users, i + 1, myself,
                  IF opponent = <<>> THEN <<users[i]>> ELSE opponent)

(* the for-loop over users: the last participant with the tracked id is    *)
(* myself, the last other participant is the opponent; <<>> stands for None *)
RECURSIVE ScanUsers(_, _, _, _)
ScanUsers(users, i, myself, opponent) ==
    IF i > Len(users) THEN [myself |-> myself, opponent |-> opponent]
    ELSE IF users[i].user_id = PLAYER_ID
         THEN ScanUsers(users, i + 1, <<users[i]>>, opponent)
         ELSE ScanUsers(users, i + 1, myself, <<users[i]>>)

(* the test written with `and`: one right field lets the record through *)
IsCompletedDual_AndSlip(match) ==
    ~(match.status # "COMPLETED" /\ match.match_mode # "DUAL_PLAYER")

(* the status and mode test that opens the loop body *)
IsCompletedDual(match) ==
    ~(match.status # "COMPLETED" \/ match.match_mode # "DUAL_PLAYER")

(* the tournament name each variant reads from a match *)
ResolveTournamentName(v, match) ==
    IF v = "h2h"
    THEN GetOr(match.tournament_name, Str(S_UNKNOWN))
    ELSE GetOr(match.nested_tournament_name, Str(S_UNKNOWN))


(***************************************************************************)
(* One iteration of the loop of calculate_head_to_head ("h2h") and of      *)
(* calculate_statistics ("report") on an aggregate state st.               *)
(***************************************************************************)

(* the update with the subtype bucket forgotten *)
UpdateStatistics_NoSubtype(st, opponent_name, my_result, main_type, subtype) ==
    LET h1 == IncStat(st.h, opponent_name, "total_matches")
        t1 == IncTournamentStat(st.t, main_type, opponent_name, "total_matches")
        field == IF my_result = "WIN" THEN "wins" ELSE "losses"
    IN  IF my_result = "WIN" \/ my_result = "LOSS"
        THEN [st EXCEPT
                !.h = IncStat(h1, opponent_name, field),
                !.t = IncTournamentStat(t1, main_type, opponent_name, field)]
        ELSE [st EXCEPT !.h = h1, !.t = t1]

(* the update with wins kept as a running streak: a loss sets the global   *)
(* wins of the opponent back to zero                                       *)
UpdateStatistics_Streak(st, opponent_name, my_result, main_type, subtype) ==
    LET h1 == IncStat(st.h, opponent_name, "total_matches")
        t1 == IncTournamentStat(st.t, main_type, opponent_name, "total_matches")
        t2 == IncTournamentStat(t1, subtype, opponent_name, "total_matches")
        field == IF my_result = "WIN" THEN "wins" ELSE "losses"
        h2 == IncStat(h1, opponent_name, field)
    IN  IF my_result = "WIN" \/ my_result = "LOSS"
        THEN [st EXCEPT
                !.h = IF my_result = "LOSS"
                      THEN Put(h2, opponent_name,
                               [Lookup(h2, opponent_name) EXCEPT !.wins = 0])
                      ELSE h2,
                !.t = IncTournamentStat(
                          IncTournamentStat(t2, main_type, opponent_name, field),
                          subtype, opponent_name, field)]
        ELSE [st EXCEPT !.h = h1, !.t = t2]

(* the three total_matches increments, then the three wins or losses ones *)
UpdateStatistics(st, opponent_name, my_result, main_type, subtype) ==
    LET h1 == IncStat(st.h, opponent_name, "total_matches")
        t1 == IncTournamentStat(st.t, main_type, opponent_name, "total_matches")
        t2 == IncTournamentStat(t1, subtype, opponent_name, "total_matches")
        field == IF my_result = "WIN" THEN "wins" ELSE "losses"
    IN  IF my_result = "WIN" \/ my_result = "LOSS"
        THEN [st EXCEPT
                !.h = IncStat(h1, opponent_name, field),
                !.t = IncTournamentStat(
                          IncTournamentStat(t2, main_type, opponent_name, field),
                          subtype, opponent_name, field)]
        ELSE [st EXCEPT !.h = h1, !.t = t2]

(* the avatars calculate_statistics stores; calculate_head_to_head has none *)
(* the avatar of every match stored, the latest one kept *)
StorePictures_Overwrite(v, st, myself, opponent, opponent_name) ==
    IF v = "h2h" THEN st
    ELSE [st EXCEPT
            !.ppic = IF st.ppic = ""
                     THEN (IF myself.pic_url = NoKey THEN "" ELSE myself.pic_url)
                     ELSE @,
            !.pics = Put(@, opponent_name,
                         IF opponent.pic_url = NoKey THEN "" ELSE opponent.pic_url)]

StorePictures(v, st, myself, opponent, opponent_name) ==
    IF v = "h2h" THEN st
    ELSE LET opponent_pic_url == IF opponent.pic_url = NoKey THEN "" ELSE opponent.pic_url
         IN  [st EXCEPT
                !.ppic = IF st.ppic = ""
                         THEN (IF myself.pic_url = NoKey THEN "" ELSE myself.pic_url)
                         ELSE @,
                !.pics = IF Has(st.pics, opponent_name) THEN @
                         ELSE Put(@, opponent_name, opponent_pic_url)]

(* the records filed under the opponent's id *)
OpponentKey_ById(opponent) ==
    IF opponent.user_id = NoKey THEN "Unknown" ELSE opponent.user_id

(* opponent.get('name', 'Unknown'): the key of every record of the match *)
OpponentKey(opponent) ==
    IF opponent.name = NoKey THEN "Unknown" ELSE opponent.name

(* How a match reaches its participants.  match_user_details is "users"    *)
(* when it is an object whose users is the list match.users, "missing" or  *)
(* "no_users" when the key or the users key in it is absent (the defaults  *)
(* {} and [] apply), "null" when it holds null (None.get raises) and       *)
(* "null_users" when users holds null (iterating None raises).             *)
UsersRaise(match) == match.match_user_details \in {"null", "null_users"}

UsersOf(match) == IF match.match_user_details = "users" THEN match.users ELSE <<>>

(* the report variant looks the name up through two nested objects *)
NameRaises(v, match) == v = "report" /\ match.nested_tournament_name = NullDetails

(* An exception is not caught anywhere in the loop: pc "error" ends it,     *)
(* with what was stored before the exception kept.                         *)
(* the result read off the opponent: a win where the opponent lost *)
my_result_FromOpponent(myself, opponent) ==
    IF opponent.result = "LOSS" THEN "WIN"
    ELSE IF opponent.result = "WIN" THEN "LOSS" ELSE opponent.result

(* my_result = myself.get('result') *)
my_result_of(myself, opponent) == myself.result

(* the set rebound to the latest label *)
AddType_Replace(types, main_type) == {main_type}

(* self.tournament_types.add(main_type) *)
AddType(types, main_type) == types \cup {main_type}

LoopBody(v, st, match) ==
    IF ~IsCompletedDual(match)
    THEN [st EXCEPT !.pc = "skip_status"]
    ELSE IF UsersRaise(match)
    THEN [st EXCEPT !.pc = "error"]
    ELSE
    LET found == ScanUsers(UsersOf(match), 1, <<>>, <<>>)
    IN  IF found.myself = <<>> \/ found.opponent = <<>>
        THEN [st EXCEPT !.pc = "skip_users"]
        ELSE
        LET myself == found.myself[1]
            opponent == found.opponent[1]
            opponent_name == OpponentKey(opponent)
            my_result == my_result_of(myself, opponent)
            tournament_name == ResolveTournamentName(v, match)
            parsed == parse_tournament_type(v, tournament_name)
            st1 == StorePictures(v, st, myself, opponent, opponent_name)
            st2 == [st1 EXCEPT !.types = AddType(@, parsed[1])]
            st3 == UpdateStatistics(st2, opponent_name, my_result, parsed[1], parsed[2])
        IN  IF NameRaises(v, match) THEN [st1 EXCEPT !.pc = "error"]
            ELSE
            [st3 EXCEPT
                !.processed = IF v = "report" THEN @ + 1 ELSE @,
                !.pc = "counted",
                !.arg = tournament_name,
                !.ret = parsed,
                !.opponent_name = opponent_name]

(***************************************************************************)
(* The records a data file may hold.                                       *)
(***************************************************************************)
Results == {"WIN", "LOSS", "DRAW", NoKey}
PicOf(id) == IF id = PLAYER_ID THEN "me.png" ELSE IF id = "u1" THEN "u1.png" ELSE "u2.png"

Me(r) == [user_id |-> PLAYER_ID, name |-> "Prasanna Nivas", result |-> r,
          pic_url |-> PicOf(PLAYER_ID)]
Opp(id, n, r) == [user_id |-> id, name |-> n, result |-> r, pic_url |-> PicOf(id)]

(* the opponent's own result: the complement of the tracked player's *)
Against(r) == IF r = "WIN" THEN "LOSS" ELSE IF r = "LOSS" THEN "WIN" ELSE r

(* two people who share the display name A, one of whom also plays as B *)
OpponentIdNames == {<<"u1", "A">>, <<"u2", "A">>, <<"u2", "B">>}
OpponentIds == {o[1] : o \in OpponentIdNames}

UserLists ==
    {<<>>}
    \cup {<<Me(r)>> : r \in Results}
    \cup {<<Opp(o[1], o[2], "LOSS")>> : o \in OpponentIdNames}
    \cup {<<Me(r), Opp(o[1], o[2], Against(r))>> : r \in Results, o \in OpponentIdNames}
    \cup {<<Opp(o[1], o[2], Against(r)), Me(r)>> : r \in Results, o \in OpponentIdNames}

TournamentNames ==
    {Missing, Str(<<>>), Str(S_OTHER), Str(IBC_250_BLITZ), Str(PRO_500_SOMETHING)}

(* a record carries its tournament name on the top-level path, on the      *)
(* nested path, or on neither                                              *)
QualifyingMatches ==
    {[status |-> "COMPLETED", match_mode |-> "DUAL_PLAYER",
      match_user_details |-> "users", users |-> u,
      tournament_name |-> tn[1], nested_tournament_name |-> tn[2]] :
        u \in UserLists,
        tn \in ({<<t, Missing>> : t \in TournamentNames}
                \cup {<<Missing, t>> : t \in TournamentNames})}

OtherMatches ==
    {[status |-> sm[1], match_mode |-> sm[2],
      match_user_details |-> "users", users |-> u,
      tournament_name |-> t, nested_tournament_name |-> t] :
        sm \in {<<"IN_PROGRESS", "DUAL_PLAYER">>, <<NoKey, "DUAL_PLAYER">>,
                <<"COMPLETED", "SINGLE_PLAYER">>, <<"COMPLETED", NoKey>>,
                <<"IN_PROGRESS", NoKey>>},
        u \in {<<Me("WIN"), Opp("u1", "A", "LOSS")>>, <<Opp("u2", "B", "WIN"), Me("LOSS")>>},
        t \in {Missing, Str(IBC_250_BLITZ)}}

Matches == QualifyingMatches \cup OtherMatches

(***************************************************************************)
(* The state machine.                                                      *)
(***************************************************************************)
Store ==
    [h |-> head_to_head_stats, t |-> tournament_stats, types |-> tournament_types,
     pics |-> opponent_pics, ppic |-> player_pic_url, processed |-> processed,
     pc |-> pc, arg |-> arg, ret |-> ret, opponent_name |-> NoKey]

(* History of the input, read off the record itself: is it completed, is   *)
(* it dual-player, does it list the tracked player, does it list anyone    *)
(* else; and, when all four hold, the tracked player's result and the id   *)
(* and name of the other participants.                                     *)
Tracked(match) == {i \in DOMAIN UsersOf(match) : UsersOf(match)[i].user_id = PLAYER_ID}
Others(match) == {i \in DOMAIN UsersOf(match) : UsersOf(match)[i].user_id # PLAYER_ID}
Facts(match) ==
    LET all == /\ match.status = "COMPLETED" /\ match.match_mode = "DUAL_PLAYER"
               /\ Tracked(match) # {} /\ Others(match) # {}
    IN  [completed |-> match.status = "COMPLETED",
         dual |-> match.match_mode = "DUAL_PLAYER",
         tracked |-> Tracked(match) # {},
         other |-> Others(match) # {},
         results |-> IF all THEN {UsersOf(match)[i].result : i \in Tracked(match)} ELSE {},
         opp_ids |-> IF all THEN {UsersOf(match)[i].user_id : i \in Others(match)} ELSE {},
         opp_names |-> IF all THEN {UsersOf(match)[i].name : i \in Others(match)} ELSE {}]

NoFacts ==
    [completed |-> FALSE, dual |-> FALSE, tracked |-> FALSE, other |-> FALSE,
     results |-> {}, opp_ids |-> {}, opp_names |-> {}]

(* The history names a record by <<bucket, opponent name>>; the global      *)
(* aggregate goes under the empty label, which no bucket ever carries.     *)
GLOBAL == <<>>

(* History: the records a counted match is counted in, each once. *)
CountOther(oc, st) ==
    LET ks == {<<GLOBAL, st.opponent_name>>, <<st.ret[1], st.opponent_name>>,
               <<st.ret[2], st.opponent_name>>}
    IN  [k \in DOMAIN oc \cup ks |->
            (IF k \in DOMAIN oc THEN oc[k] ELSE 0) + (IF k \in ks THEN 1 ELSE 0)]

(* The state after __init__.  The loop below takes any record as the next  *)
(* one of self.data, so the list itself is not kept here.                  *)
Init ==
    /\ variant \in Variants
    /\ data = <<>>
    /\ trace = <<>>
    /\ head_to_head_stats = <<>>
    /\ tournament_stats = <<>>
    /\ tournament_types = {}
    /\ opponent_pics = <<>>
    /\ player_pic_url = ""
    /\ idx = 0
    /\ processed = 0
    /\ pc = "start"
    /\ arg = Missing
    /\ ret = <<>>
    /\ taken = NoFacts
    /\ other_results = <<>>

(* the loop takes the next record of self.data, whatever it is *)
ProcessMatch(match) ==
    /\ pc \notin {"returned", "error"}
    /\ idx < MaxMatches
    /\ \E st \in {LoopBody(variant, Store, match)} :
           /\ head_to_head_stats' = st.h
           /\ tournament_stats' = st.t
           /\ tournament_types' = st.types
           /\ opponent_pics' = st.pics
           /\ player_pic_url' = st.ppic
           /\ processed' = st.processed
           /\ pc' = st.pc
           /\ arg' = st.arg
           /\ ret' = st.ret
           /\ other_results' =
                IF st.pc = "counted" /\ Facts(match).results \cap {"WIN", "LOSS"} = {}
                THEN CountOther(other_results, st)
                ELSE other_results
    /\ idx' = idx + 1
    /\ taken' = Facts(match)
    /\ UNCHANGED <<variant, data, trace>>

Next == \E match \in Matches : ProcessMatch(match)

Spec == Init /\ [][Next]_vars

(***************************************************************************)
(* The classifier on its own: the name is drawn first, then one call.      *)
(***************************************************************************)
InitClassify ==
    /\ variant \in Variants
    /\ data = <<>>
    /\ trace = <<>>
    /\ head_to_head_stats = <<>>
    /\ tournament_stats = <<>>
    /\ tournament_types = {}
    /\ opponent_pics = <<>>
    /\ player_pic_url = ""
    /\ idx = 0
    /\ processed = 0
    /\ pc = "start"
    /\ arg \in NameArgs
    /\ ret = <<>>
    /\ taken = NoFacts
    /\ other_results = <<>>

Classify ==
    /\ pc = "start"
    /\ ret' = parse_tournament_type(variant, arg)
    /\ pc' = "returned"
    /\ UNCHANGED <<variant, data, aggregates, idx, processed, arg, taken,
                   other_results, trace>>

SpecClassify == InitClassify /\ [][Classify]_vars


(***************************************************************************)
(* Reading the aggregates.                                                 *)
(***************************************************************************)
AllKeys(h, t) ==
    {<<GLOBAL, n>> : n \in Keys(h)}
    \cup UNION {{<<t[i].key, n>> : n \in Keys(t[i].val)} : i \in DOMAIN t}

RecAt(h, t, k) ==
    IF k[1] = GLOBAL THEN GetDefault(h, k[2], ZeroRec)
    ELSE GetDefault(GetDefault(t, k[1], <<>>), k[2], ZeroRec)

Before(k) == RecAt(head_to_head_stats, tournament_stats, k)
After(k) == RecAt(head_to_head_stats', tournament_stats', k)
KeysBefore == AllKeys(head_to_head_stats, tournament_stats)
KeysAfter == AllKeys(head_to_head_stats', tournament_stats')

(* the loop has just taken one more record *)
Took == idx' = idx + 1

(* by the record itself: completed, dual-player, the tracked player and    *)
(* somebody else listed                                                    *)
Qualifying(f) == f.completed /\ f.dual /\ f.tracked /\ f.other

(* the name under which the code files an opponent *)
FiledAs(name) == IF name = NoKey THEN "Unknown" ELSE name

(***************************************************************************)
(* C1.  Every qualifying match raises total_matches by exactly 1 in        *)
(* exactly three distinct records, global[opp], bucket[mainType][opp] and  *)
(* bucket[subType][opp], and changes no other record.  Violated: for the   *)
(* tournament name "Other" mainType and subType are the same bucket, whose *)
(* record is raised by 2.                                                  *)
(***************************************************************************)
C1_ThreeRecordsEachOnce ==
    [][(Took /\ Qualifying(taken')) =>
        \E n \in {FiledAs(x) : x \in taken'.opp_names} :
            LET three == {<<GLOBAL, n>>, <<ret'[1], n>>, <<ret'[2], n>>}
            IN  /\ Cardinality(three) = 3
                /\ \A k \in three :
                      After(k).total_matches = Before(k).total_matches + 1
                /\ \A k \in (KeysBefore \cup KeysAfter) \ three :
                      After(k) = Before(k)]_vars

(***************************************************************************)
(* C2.  A record that is not COMPLETED or not DUAL_PLAYER (a missing field *)
(* included) leaves global records, buckets, tournament types and avatars  *)
(* unchanged, so that after only such records all of them are still empty  *)
(* (the witness: two such records taken, nothing stored).                  *)
(***************************************************************************)
C2_NotCompletedDualUnchanged ==
    [][(Took /\ ~(taken'.completed /\ taken'.dual)) => UNCHANGED aggregates]_vars

C2_Witness ==
    /\ idx = 2
    /\ ~taken.completed /\ taken.dual
    /\ pc = "skip_status"
    /\ head_to_head_stats = <<>> /\ tournament_stats = <<>>
    /\ tournament_types = {} /\ opponent_pics = <<>>

(***************************************************************************)
(* C3.  A COMPLETED DUAL_PLAYER record changes nothing when it lacks the   *)
(* tracked player or lacks any other participant, and is aggregated (one   *)
(* more match in the global aggregate) when it lists both.                 *)
(***************************************************************************)
RECURSIVE SumTotals(_)
SumTotals(h) ==
    IF h = <<>> THEN 0 ELSE h[1].val.total_matches + SumTotals(Tail(h))

C3_SkippedIffParticipantMissing ==
    [][(Took /\ taken'.completed /\ taken'.dual) =>
        IF taken'.tracked /\ taken'.other
        THEN SumTotals(head_to_head_stats') = SumTotals(head_to_head_stats) + 1
        ELSE UNCHANGED aggregates]_vars

C3_Witness ==
    /\ idx = 2
    /\ taken.completed /\ taken.dual /\ taken.tracked /\ ~taken.other
    /\ pc = "skip_users"
    /\ SumTotals(head_to_head_stats) = 1
    /\ Len(tournament_stats) = 2


(***************************************************************************)
(* C4.  In every record, total_matches = wins + losses + the number of     *)
(* matches counted in it whose tracked-player result was neither WIN nor   *)
(* LOSS, hence total_matches >= wins + losses; a WIN adds 1 to wins only,  *)
(* a LOSS 1 to losses only, any other or absent result adds to neither.    *)
(* Violated through C1: a match in the tournament "Other" is counted twice *)
(* in the record of bucket "Other".                                        *)
(***************************************************************************)
OtherResultsAt(k) == IF k \in DOMAIN other_results THEN other_results[k] ELSE 0

C4_Balance ==
    \A k \in KeysBefore :
        /\ Before(k).total_matches =
              Before(k).wins + Before(k).losses + OtherResultsAt(k)
        /\ Before(k).total_matches >= Before(k).wins + Before(k).losses

C4_StepAddsOne ==
    (Took /\ Qualifying(taken')) =>
        \A k \in KeysAfter :
            After(k) # Before(k) =>
                /\ After(k).wins =
                      Before(k).wins + (IF taken'.results = {"WIN"} THEN 1 ELSE 0)
                /\ After(k).losses =
                      Before(k).losses + (IF taken'.results = {"LOSS"} THEN 1 ELSE 0)

C4_TotalIsWinsLossesOthers == [](C4_Balance) /\ [][C4_StepAddsOne]_vars

(***************************************************************************)
(* C5.  Records are keyed by the opponent's display name, never by the id: *)
(* whatever the opponent's id, a qualifying match changes only records     *)
(* filed under the opponent's name, and it does change the global one.     *)
(* So two ids under one name share their records and one id under two      *)
(* names has two.                                                          *)
(***************************************************************************)
C5_KeyedByName ==
    [][(Took /\ Qualifying(taken')) =>
        \E n \in {FiledAs(x) : x \in taken'.opp_names} :
            /\ After(<<GLOBAL, n>>).total_matches =
                  Before(<<GLOBAL, n>>).total_matches + 1
            /\ \A k \in KeysBefore \cup KeysAfter :
                  After(k) # Before(k) => k[2] = n
            /\ \A k \in KeysAfter : k[2] \notin OpponentIds]_vars

(* the avatar kept for A is u1's, the match just counted was against u2,   *)
(* and both are in the one global record                                   *)
C5_Witness ==
    /\ variant = "report"
    /\ Qualifying(taken) /\ taken.opp_ids = {"u2"} /\ taken.opp_names = {"A"}
    /\ opponent_pics = <<[key |-> "A", val |-> "u1.png"]>>
    /\ Len(head_to_head_stats) = 1
    /\ Before(<<GLOBAL, "A">>).total_matches = 2

(***************************************************************************)
(* C6.  A qualifying match whose tournament name is absent or empty is     *)
(* classified ("Other", "Unknown") and counted once in global[opp], once   *)
(* in bucket "Other" and once in bucket "Unknown".  The name handed to the *)
(* classifier is then the empty string, None, or the default "Unknown"     *)
(* the lookup gives for a missing key.                                     *)
(***************************************************************************)
AbsentOrEmpty(a) == a = Null \/ a = Str(<<>>) \/ a = Str(S_UNKNOWN)

C6_AbsentNameIsOtherUnknown ==
    [][(Took /\ Qualifying(taken') /\ AbsentOrEmpty(arg')) =>
        /\ ret' = <<S_OTHER, S_UNKNOWN>>
        /\ \E n \in {FiledAs(x) : x \in taken'.opp_names} :
              \A b \in {GLOBAL, S_OTHER, S_UNKNOWN} :
                  After(<<b, n>>).total_matches = Before(<<b, n>>).total_matches + 1]_vars

C6_Witness ==
    /\ idx = 1 /\ pc = "counted" /\ Qualifying(taken)
    /\ arg = Str(<<>>)
    /\ ret = <<S_OTHER, S_UNKNOWN>>
    /\ \A b \in {GLOBAL, S_OTHER, S_UNKNOWN} : Before(<<b, "A">>).total_matches = 1


(***************************************************************************)
(* C7.  For a name containing "iBC PRO 360" (resp. "iBC 360" and not       *)
(* "iBC PRO 360") the main type is that label and the subtype is           *)
(* label - X, X the first whitespace-delimited token of the second part of *)
(* the name split on " - ", or label - Unknown when there is one part;     *)
(* also when the second part is empty or begins with a space.  Violated:   *)
(* for a second part that begins with a space the code takes X = "".       *)
(***************************************************************************)
RECURSIVE DropSpaces(_)
DropSpaces(s) == IF s # <<>> /\ Head(s) = " " THEN DropSpaces(Tail(s)) ELSE s

RECURSIVE TakeWord(_)
TakeWord(s) ==
    IF s = <<>> \/ Head(s) = " " THEN <<>> ELSE <<Head(s)>> \o TakeWord(Tail(s))

(* the first whitespace-delimited token of s; empty when s has none *)
FirstToken(s) == TakeWord(DropSpaces(s))

LabelOf(name) ==
    IF Contains(name, IBC_PRO_360) THEN IBC_PRO_360
    ELSE IF Contains(name, IBC_360) THEN IBC_360
    ELSE <<>>

C7_SubtypeIsFirstToken ==
    (pc = "returned" /\ arg.k = "str" /\ LabelOf(arg.s) # <<>>) =>
        LET label == LabelOf(arg.s)
            parts == Split(arg.s, SEP)
        IN  ret = <<label,
                    IF Len(parts) >= 2
                    THEN label \o SEP \o FirstToken(parts[2])
                    ELSE label \o SEP \o S_UNKNOWN>>

(***************************************************************************)
(* C8.  A non-empty name containing neither "iBC PRO 360" nor "iBC 360"    *)
(* is classified ("Other", the name unchanged).                            *)
(***************************************************************************)
C8_UnrecognisedIsOther ==
    (pc = "returned" /\ arg.k = "str" /\ arg.s # <<>>
        /\ ~Contains(arg.s, IBC_PRO_360) /\ ~Contains(arg.s, IBC_360)) =>
        ret = <<S_OTHER, arg.s>>

C8_Witness ==
    pc = "returned" /\ arg = Str(WEEKLY_CUP) /\ ret = <<S_OTHER, WEEKLY_CUP>>

(***************************************************************************)
(* C9.  Every name containing "iBC PRO 360 - 500 Something", whatever      *)
(* precedes or follows it, is classified ("iBC PRO 360",                   *)
(* "iBC PRO 360 - 500").  Violated: when " - " occurs before it, the       *)
(* second part of the split is not the one that starts with 500.           *)
(***************************************************************************)
C9_Pro500Anywhere ==
    (pc = "returned" /\ arg.k = "str" /\ Contains(arg.s, PRO_500_SOMETHING)) =>
        ret = <<IBC_PRO_360, IBC_PRO_360 \o SEP \o N500>>

(***************************************************************************)
(* C10.  For every string and for None the classifier returns a pair whose *)
(* main type is "iBC PRO 360", "iBC 360" or "Other", and the aggregates    *)
(* are as they were before the call.                                       *)
(***************************************************************************)
C10_TotalAndPure ==
    pc = "returned" =>
        /\ Len(ret) = 2
        /\ ret[1] \in {IBC_PRO_360, IBC_360, S_OTHER}
        /\ Len(ret[2]) > 0
        /\ aggregates = <<(<<>>), (<<>>), {}, (<<>>), "">>

C10_Witness ==
    pc = "returned" /\ arg = Null /\ ret = <<S_OTHER, S_UNKNOWN>>


(***************************************************************************)
(* Aggregation as a whole: calculate_head_to_head ("h2h") and              *)
(* calculate_statistics ("report") over all of self.data, on one instance  *)
(* and then on a second instance given the same records.                   *)
(***************************************************************************)
MaxData == 3

(* the loop left at the first skipped record: break where the code has    *)
(* continue                                                                *)
RECURSIVE calculate_statistics_Break(_, _, _)
calculate_statistics_Break(v, st, records) ==
    IF records = <<>> \/ st.pc \in {"error", "skip_status", "skip_users"} THEN st
    ELSE calculate_statistics_Break(v, LoopBody(v, st, Head(records)), Tail(records))

(* the for-loop over self.data, from the aggregate state st *)
RECURSIVE calculate_statistics(_, _, _)
calculate_statistics(v, st, records) ==
    IF records = <<>> \/ st.pc = "error" THEN st
    ELSE calculate_statistics(v, LoopBody(v, st, Head(records)), Tail(records))

(* a COMPLETED DUAL_PLAYER record *)
Completed(u, primary, nested) ==
    [status |-> "COMPLETED", match_mode |-> "DUAL_PLAYER",
     match_user_details |-> "users", users |-> u,
     tournament_name |-> primary, nested_tournament_name |-> nested]

(* Records for whole runs: two people named A, B in two tournaments, names *)
(* on either path, a draw, and a match still in progress.                  *)
CalcMatches ==
    {Completed(<<Me("WIN"), Opp("u1", "A", "LOSS")>>, Str(PRO_500_SOMETHING), Missing),
     Completed(<<Opp("u2", "A", "WIN"), Me("LOSS")>>, Missing, Str(IBC_250_BLITZ)),
     Completed(<<Me("LOSS"), Opp("u2", "B", "WIN")>>, Str(S_OTHER), Missing),
     Completed(<<Me("DRAW"), Opp("u2", "B", "DRAW")>>, Missing, Str(PRO_500_SOMETHING)),
     [status |-> "IN_PROGRESS", match_mode |-> "DUAL_PLAYER",
      match_user_details |-> "users",
      users |-> <<Me("WIN"), Opp("u1", "A", "LOSS")>>,
      tournament_name |-> Str(IBC_250_BLITZ),
      nested_tournament_name |-> Str(IBC_250_BLITZ)]}

CalcData == UNION {[1..k -> CalcMatches] : k \in 0..MaxData}

(* the orders in which n records can be handed over *)
Orders(n) == {p \in [1..n -> 1..n] : \A i, j \in 1..n : i # j => p[i] # p[j]}
Reordered(records, p) == [i \in DOMAIN records |-> records[p[i]]]

(* the two stats dicts as attributes of the class, shared by all instances *)
NewInstance_Shared ==
    [h |-> head_to_head_stats, t |-> tournament_stats, types |-> {},
     pics |-> <<>>, ppic |-> ""]

(* the fields __init__ assigns to a new instance, whatever came before *)
NewInstance ==
    [h |-> <<>>, t |-> <<>>, types |-> {}, pics |-> <<>>, ppic |-> ""]

(* what an instance holds once its aggregation has run *)
Snapshot ==
    [h |-> head_to_head_stats, t |-> tournament_stats, types |-> tournament_types,
     pics |-> opponent_pics, ppic |-> player_pic_url, data |-> data]

NoSnapshot == <<>>

InitCalc ==
    /\ variant \in Variants
    /\ data \in CalcData
    /\ head_to_head_stats = <<>>
    /\ tournament_stats = <<>>
    /\ tournament_types = {}
    /\ opponent_pics = <<>>
    /\ player_pic_url = ""
    /\ idx = 0
    /\ processed = 0
    /\ pc = "loaded"
    /\ arg = Missing
    /\ ret = NoSnapshot
    /\ taken = NoFacts
    /\ other_results = <<>>
    /\ trace = <<>>

(* calculate_head_to_head() / calculate_statistics() from start to end *)
Calculate ==
    /\ pc \in {"loaded", "loaded_again"}
    /\ \E st \in {calculate_statistics(variant, [Store EXCEPT !.processed = 0], data)} :
           /\ head_to_head_stats' = st.h
           /\ tournament_stats' = st.t
           /\ tournament_types' = st.types
           /\ opponent_pics' = st.pics
           /\ player_pic_url' = st.ppic
           /\ processed' = st.processed
           /\ pc' = IF st.pc = "error" THEN "error"
                    ELSE IF pc = "loaded" THEN "calculated" ELSE "calculated_again"
    /\ UNCHANGED <<variant, data, idx, arg, ret, taken, other_results, trace>>

(* A second instance is constructed and given the records of the first in  *)
(* the order p; what the first instance computed is kept aside in ret.     *)
Reinstantiate(p) ==
    /\ pc = "calculated"
    /\ ret' = Snapshot
    /\ \E st \in {NewInstance} :
           /\ head_to_head_stats' = st.h
           /\ tournament_stats' = st.t
           /\ tournament_types' = st.types
           /\ opponent_pics' = st.pics
           /\ player_pic_url' = st.ppic
    /\ data' = Reordered(data, p)
    /\ processed' = 0
    /\ pc' = "loaded_again"
    /\ UNCHANGED <<variant, idx, arg, taken, other_results, trace>>

NextCalc ==
    \/ Calculate
    \/ \E p \in Orders(Len(data)) : Reinstantiate(p)

SpecCalc == InitCalc /\ [][NextCalc]_vars

(***************************************************************************)
(* C11.  A qualifying match that carries its tournament name on only one   *)
(* of the two paths (match.tournament_name, or tournament_match_details.   *)
(* tournament_type_details.tournament_name) is classified by that name:    *)
(* after the aggregation its main type is among the tournament types and   *)
(* its opponent has a record in the buckets of its main type and subtype.  *)
(* Violated: neither variant falls back; "h2h" reads only the first path,  *)
(* "report" only the second, and a name on the other path is filed under   *)
(* ("Other", "Unknown").                                                   *)
(***************************************************************************)
OnOnePath(m) ==
    (m.tournament_name.k = "str") # (m.nested_tournament_name.k = "str")

CarriedName(m) ==
    IF m.tournament_name.k = "str" THEN m.tournament_name
    ELSE m.nested_tournament_name

C11_NameFromEitherPath ==
    pc = "calculated" =>
        \A i \in DOMAIN data :
            (Qualifying(Facts(data[i])) /\ OnOnePath(data[i])) =>
                LET parsed == parse_tournament_type(variant, CarriedName(data[i]))
                IN  /\ parsed[1] \in tournament_types
                    /\ \E n \in {FiledAs(x) : x \in Facts(data[i]).opp_names} :
                          /\ Before(<<parsed[1], n>>).total_matches > 0
                          /\ Before(<<parsed[2], n>>).total_matches > 0

(***************************************************************************)
(* C12.  Handing the same records to the aggregation in another order      *)
(* changes no wins, losses or total_matches of any record, global or in a  *)
(* bucket, nor the set of buckets, nor the set of tournament types.  What  *)
(* may differ is the order in which records were inserted and the avatar   *)
(* kept for a name shared by two ids (the witness).                        *)
(***************************************************************************)
C12_OrderIndependent ==
    pc = "calculated_again" =>
        /\ AllKeys(ret.h, ret.t) = KeysBefore
        /\ \A k \in KeysBefore : RecAt(ret.h, ret.t, k) = Before(k)
        /\ Keys(ret.t) = Keys(tournament_stats)
        /\ ret.types = tournament_types

C12_Witness ==
    /\ pc = "calculated_again"
    /\ variant = "report"
    /\ Len(data) = 3 /\ data # ret.data
    /\ head_to_head_stats # ret.h
    /\ Lookup(opponent_pics, "A") # Lookup(ret.pics, "A")
    /\ Before(<<GLOBAL, "A">>) = [wins |-> 1, losses |-> 1, total_matches |-> 2]
    /\ RecAt(ret.h, ret.t, <<GLOBAL, "A">>) = Before(<<GLOBAL, "A">>)

(***************************************************************************)
(* C13.  A second, freshly constructed instance given the same records in  *)
(* the same order ends with the same global records, the same buckets and  *)
(* the same tournament types as the first (and the same avatars): nothing  *)
(* of the first instance reaches the second.                               *)
(***************************************************************************)
C13_SecondInstanceSame ==
    (pc = "calculated_again" /\ data = ret.data) => Snapshot = ret

C13_Witness ==
    /\ pc = "calculated_again"
    /\ Len(data) = 3 /\ data = ret.data
    /\ Len(head_to_head_stats) = 2 /\ Len(tournament_stats) >= 3
    /\ Snapshot = ret

(***************************************************************************)
(* The summaries: print_statistics and _get_statistics_data ("h2h"),       *)
(* get_statistics_summary ("report"), called once on an instance whose     *)
(* aggregation has run.                                                    *)
(***************************************************************************)
MaxOpponents == 11
MaxExtra == 2

ALL == <<"A", "l", "l">>     \* the selector of the global aggregate
TOP_N == 10                  \* the slice [:10] of get_statistics_summary

(* the aggregate state of a new instance, before any record *)
EmptyStore ==
    [h |-> <<>>, t |-> <<>>, types |-> {}, pics |-> <<>>, ppic |-> "",
     processed |-> 0, pc |-> "start", arg |-> Missing, ret |-> <<>>,
     opponent_name |-> NoKey]

(* stats_data: the global dict for "All", else tournament_stats.get(f, {}) *)
stats_data(tournament_filter) ==
    IF tournament_filter = ALL THEN head_to_head_stats
    ELSE GetDefault(tournament_stats, tournament_filter, <<>>)

(* sorted(items, key = total_matches, reverse = True): the sort is stable,  *)
(* so entries with equal totals stay in the order of the dict              *)
RECURSIVE InsertByTotal(_, _)
InsertByTotal(sorted, e) ==
    IF sorted = <<>> THEN <<e>>
    ELSE IF Head(sorted).val.total_matches >= e.val.total_matches
         THEN <<Head(sorted)>> \o InsertByTotal(Tail(sorted), e)
         ELSE <<e>> \o sorted

RECURSIVE sorted_opponents(_)
sorted_opponents(items) ==
    IF items = <<>> THEN <<>>
    ELSE InsertByTotal(sorted_opponents(SubSeq(items, 1, Len(items) - 1)),
                       items[Len(items)])

(* the running sums of one field over the entries *)
RECURSIVE SumField(_, _)
SumField(items, field) ==
    IF items = <<>> THEN 0
    ELSE Head(items).val[field] + SumField(Tail(items), field)

(* (total_wins / total_matches * 100) if total_matches > 0 else 0, kept    *)
(* as the exact fraction num / den                                         *)
win_percentage(total_wins, total_matches) ==
    IF total_matches > 0
    THEN [num |-> total_wins * 100, den |-> total_matches]
    ELSE [num |-> 0, den |-> 1]

(* CricketHeadToHead.print_statistics: a bare return, None, when the dict  *)
(* selected is empty                                                       *)
print_statistics(tournament_filter) ==
    LET items == stats_data(tournament_filter)
        sorted == sorted_opponents(items)
    IN  IF items = <<>> THEN Null
        ELSE [total_wins |-> SumField(sorted, "wins"),
              total_losses |-> SumField(sorted, "losses"),
              total_matches |-> SumField(sorted, "total_matches"),
              win_percentage |-> win_percentage(SumField(sorted, "wins"),
                                                SumField(sorted, "total_matches")),
              opponents_data |-> sorted]

(* CricketHeadToHead._get_statistics_data *)
get_statistics_data(tournament_filter) ==
    LET items == stats_data(tournament_filter)
        sorted == sorted_opponents(items)
    IN  IF items = <<>>
        THEN [total_wins |-> 0, total_losses |-> 0, total_matches |-> 0,
              win_percentage |-> win_percentage(0, 0), opponents_data |-> <<>>]
        ELSE [total_wins |-> SumField(sorted, "wins"),
              total_losses |-> SumField(sorted, "losses"),
              total_matches |-> SumField(sorted, "total_matches"),
              win_percentage |-> win_percentage(SumField(sorted, "wins"),
                                                SumField(sorted, "total_matches")),
              opponents_data |-> sorted]

(* CricketReportGenerator.get_statistics_summary *)
get_statistics_summary(tournament_filter) ==
    LET items == stats_data(tournament_filter)
        sorted == sorted_opponents(items)
    IN  IF items = <<>>
        THEN [total_wins |-> 0, total_losses |-> 0, total_matches |-> 0,
              win_percentage |-> win_percentage(0, 0), opponents_count |-> 0,
              top_opponents |-> <<>>]
        ELSE [total_wins |-> SumField(items, "wins"),
              total_losses |-> SumField(items, "losses"),
              total_matches |-> SumField(items, "total_matches"),
              win_percentage |-> win_percentage(SumField(items, "wins"),
                                                SumField(items, "total_matches")),
              opponents_count |-> Len(items),
              top_opponents |->
                  SubSeq(sorted, 1, IF Len(sorted) < TOP_N THEN Len(sorted) ELSE TOP_N)]

(* Records for the summaries: a roster of n opponents P1..Pn met once      *)
(* each in one tournament, wins and losses alternating, followed by up to  *)
(* MaxExtra further matches.  Here the name is on both paths, so that both *)
(* variants read it.                                                       *)
Named(u, name) == Completed(u, Str(name), Str(name))
Player(i) == "P" \o ToString(i)

RosterMatch(i) ==
    LET r == IF i % 2 = 1 THEN "WIN" ELSE "LOSS"
    IN  Named(<<Me(r), Opp(Player(i), Player(i), Against(r))>>, PRO_500_SOMETHING)

Roster(n) == [i \in 1..n |-> RosterMatch(i)]

ExtraMatches ==
    {Named(<<Me("WIN"), Opp(Player(2), Player(2), "LOSS")>>, PRO_500_SOMETHING),
     Named(<<Me("LOSS"), Opp(Player(3), Player(3), "WIN")>>, IBC_250_BLITZ),
     Named(<<Me("DRAW"), Opp(Player(1), Player(1), "DRAW")>>, IBC_250_BLITZ)}

SummaryData ==
    {Roster(n) \o extra :
        n \in 0..MaxOpponents,
        extra \in UNION {[1..k -> ExtraMatches] : k \in 0..MaxExtra}}

(* "All", a main type, a subtype, and a label no record of the model has *)
Selectors == {ALL, IBC_PRO_360, IBC_360 \o SEP \o N250, WEEKLY_CUP}

(* an instance whose aggregation over records has run *)
Aggregated(v, records) ==
    \E st \in {calculate_statistics(v, EmptyStore, records)} :
        /\ data = records
        /\ head_to_head_stats = st.h
        /\ tournament_stats = st.t
        /\ tournament_types = st.types
        /\ opponent_pics = st.pics
        /\ player_pic_url = st.ppic
        /\ processed = st.processed

(* the parts of the state a query has no use for *)
NoLoopState ==
    /\ idx = 0
    /\ taken = NoFacts
    /\ other_results = <<>>
    /\ trace = <<>>

InitSummary ==
    /\ variant \in Variants
    /\ \E records \in SummaryData : Aggregated(variant, records)
    /\ arg \in {Str(f) : f \in Selectors}
    /\ ret = <<>>
    /\ pc = "start"
    /\ NoLoopState

(* one call of a query: its value goes to ret, nothing else changes *)
Returned(name, value) ==
    /\ pc = "start"
    /\ ret' = value
    /\ pc' = name
    /\ UNCHANGED <<variant, data, aggregates, idx, processed, arg, taken,
                   other_results, trace>>

PrintStatistics ==
    variant = "h2h" /\ Returned("print_statistics", print_statistics(arg.s))

GetStatisticsData ==
    variant = "h2h" /\ Returned("_get_statistics_data", get_statistics_data(arg.s))

GetStatisticsSummary ==
    variant = "report" /\ Returned("get_statistics_summary", get_statistics_summary(arg.s))

NextSummary == PrintStatistics \/ GetStatisticsData \/ GetStatisticsSummary

SpecSummary == InitSummary /\ [][NextSummary]_vars

(***************************************************************************)
(* Reading a summary.                                                      *)
(***************************************************************************)
SummaryCalls == {"print_statistics", "_get_statistics_data", "get_statistics_summary"}

(* the bucket a selector names: the global aggregate for "All", the bucket *)
(* of that label otherwise, empty when no record carries the label         *)
BucketOf(selector) ==
    IF selector = ALL THEN head_to_head_stats
    ELSE IF Has(tournament_stats, selector) THEN Lookup(tournament_stats, selector)
    ELSE <<>>

(* the sum of one field over a bucket, counted record by record *)
BucketSum(bucket, field) ==
    Cardinality(UNION {{<<i, j>> : j \in 1..bucket[i].val[field]} : i \in DOMAIN bucket})

OpponentsOf(summary) ==
    IF variant = "h2h" THEN summary.opponents_data ELSE summary.top_opponents

PositionIn(bucket, name) == CHOOSE i \in DOMAIN bucket : bucket[i].key = name

(***************************************************************************)
(* C14.  For "All", for a label that was observed and for one that never   *)
(* was, each of print_statistics, _get_statistics_data and                 *)
(* get_statistics_summary returns a summary whose total_wins, total_losses *)
(* and total_matches are the sums over the records of the bucket and whose *)
(* win_percentage is 100 * wins / total for total > 0 and 0 otherwise; for *)
(* an empty or unknown bucket that is the all-zero summary.  Violated:     *)
(* print_statistics returns no value for an empty or unknown bucket.       *)
(***************************************************************************)
C14_SummaryOfEveryBucket ==
    pc \in SummaryCalls =>
        LET bucket == BucketOf(arg.s)
            wins == BucketSum(bucket, "wins")
            losses == BucketSum(bucket, "losses")
            total == BucketSum(bucket, "total_matches")
        IN  /\ ret # Null
            /\ ret.total_wins = wins
            /\ ret.total_losses = losses
            /\ ret.total_matches = total
            /\ IF total > 0
               THEN ret.win_percentage.num * total = 100 * wins * ret.win_percentage.den
               ELSE ret.win_percentage.num = 0
            /\ bucket = <<>> =>
                  /\ ret.total_wins = 0 /\ ret.total_losses = 0
                  /\ ret.total_matches = 0 /\ OpponentsOf(ret) = <<>>

(***************************************************************************)
(* C15.  The opponent list of a summary (opponents_data, top_opponents)    *)
(* holds every opponent of the bucket exactly once, with the record of     *)
(* the bucket, in descending order of total_matches, opponents with equal  *)
(* totals in the order in which the bucket first saw them.  Violated:      *)
(* get_statistics_summary cuts the list after ten entries.                 *)
(***************************************************************************)
C15_EveryOpponentOnceByTotal ==
    (pc \in SummaryCalls /\ ret # Null) =>
        LET bucket == BucketOf(arg.s)
            list == OpponentsOf(ret)
        IN  /\ \A n \in Keys(bucket) :
                  Cardinality({i \in DOMAIN list : list[i].key = n}) = 1
            /\ \A i \in DOMAIN list :
                  /\ Has(bucket, list[i].key)
                  /\ list[i].val = Lookup(bucket, list[i].key)
            /\ \A i, j \in DOMAIN list :
                  i < j =>
                      \/ list[i].val.total_matches > list[j].val.total_matches
                      \/ /\ list[i].val.total_matches = list[j].val.total_matches
                         /\ PositionIn(bucket, list[i].key) < PositionIn(bucket, list[j].key)

(***************************************************************************)
(* find_best_opponent and find_toughest_opponent ("h2h"): each scans the   *)
(* global aggregate in insertion order and prints the opponent it found,   *)
(* or prints nothing.  Win rates are exact fractions num / den, den > 0.   *)
(***************************************************************************)
MaxRecords == 5

Rate(n, d) == [num |-> n, den |-> d]
RateLess(a, b) == a.num * b.den < b.num * a.den

(* the loop of find_best_opponent from entry i on; <<>> stands for None *)
RECURSIVE BestScan(_, _, _, _)
BestScan(items, i, best_opponent, best_win_rate) ==
    IF i > Len(items)
    THEN [opponent |-> best_opponent, win_rate |-> best_win_rate]
    ELSE LET stats == items[i].val
             win_rate == Rate(stats.wins, stats.total_matches)
         IN  IF stats.total_matches >= 2 /\ RateLess(best_win_rate, win_rate)
             THEN BestScan(items, i + 1, <<items[i].key>>, win_rate)
             ELSE BestScan(items, i + 1, best_opponent, best_win_rate)

(* the loop of find_toughest_opponent *)
RECURSIVE ToughestScan(_, _, _, _)
ToughestScan(items, i, toughest_opponent, worst_win_rate) ==
    IF i > Len(items)
    THEN [opponent |-> toughest_opponent, win_rate |-> worst_win_rate]
    ELSE LET stats == items[i].val
             win_rate == Rate(stats.wins, stats.total_matches)
         IN  IF stats.total_matches >= 2 /\ RateLess(win_rate, worst_win_rate)
             THEN ToughestScan(items, i + 1, <<items[i].key>>, win_rate)
             ELSE ToughestScan(items, i + 1, toughest_opponent, worst_win_rate)

(* `if best_opponent:` is false for None and for the empty name; what is   *)
(* printed is the name, the rate and the record, else nothing              *)
PrintedMatchup(found) ==
    IF found.opponent # <<>> /\ found.opponent[1] \notin {"", NullKey}
    THEN <<[opponent |-> found.opponent[1], win_rate |-> found.win_rate,
            stats |-> Lookup(head_to_head_stats, found.opponent[1])]>>
    ELSE <<>>

find_best_opponent == PrintedMatchup(BestScan(head_to_head_stats, 1, <<>>, Rate(-1, 1)))

find_toughest_opponent ==
    PrintedMatchup(ToughestScan(head_to_head_stats, 1, <<>>, Rate(2, 1)))

(* Records for the two scans: A, B and a participant whose name is the     *)
(* empty string, each won or lost against.                                 *)
Versus(name, r) ==
    Named(<<Me(r), Opp(IF name = "" THEN "u1" ELSE name, name, Against(r))>>, WEEKLY_CUP)

OpponentMatches ==
    {Versus("A", "WIN"), Versus("A", "LOSS"), Versus("B", "WIN"), Versus("B", "LOSS"),
     Versus("", "WIN")}

OpponentData == UNION {[1..k -> OpponentMatches] : k \in 0..MaxRecords}

InitOpponents ==
    /\ variant = "h2h"
    /\ \E records \in OpponentData : Aggregated(variant, records)
    /\ arg = Missing
    /\ ret = <<>>
    /\ pc = "start"
    /\ NoLoopState

FindBestOpponent ==
    variant = "h2h" /\ Returned("find_best_opponent", find_best_opponent)

FindToughestOpponent ==
    variant = "h2h" /\ Returned("find_toughest_opponent", find_toughest_opponent)

NextOpponents == FindBestOpponent \/ FindToughestOpponent

SpecOpponents == InitOpponents /\ [][NextOpponents]_vars

(***************************************************************************)
(* Reading the global aggregate for the two scans.                         *)
(***************************************************************************)
Eligible == {i \in DOMAIN head_to_head_stats :
                head_to_head_stats[i].val.total_matches >= 2}

RateOf(i) == Rate(head_to_head_stats[i].val.wins,
                  head_to_head_stats[i].val.total_matches)

SameRate(a, b) == a.num * b.den = b.num * a.den

(* the first, in insertion order, of a non-empty set of entries *)
FirstOf(entries) == CHOOSE i \in entries : \A j \in entries : i <= j

ThreeOfThreeAndOneOfTwo ==
    Keys(head_to_head_stats) = {"A", "B"}
    /\ Lookup(head_to_head_stats, "A") = [wins |-> 3, losses |-> 0, total_matches |-> 3]
    /\ Lookup(head_to_head_stats, "B") = [wins |-> 1, losses |-> 1, total_matches |-> 2]

(***************************************************************************)
(* C16.  find_best_opponent reports, among the global opponents with       *)
(* total_matches >= 2, the one whose wins / total_matches is greatest, the *)
(* first in insertion order when several share it, whatever the           *)
(* opponent's name and also when the greatest ratio is 0; it reports none  *)
(* exactly when no opponent has total_matches >= 2.  Over A: 3 of 3,       *)
(* B: 1 of 2 it reports A with ratio 1.  Violated: when the opponent       *)
(* selected has the empty string as name, nothing is reported.             *)
(***************************************************************************)
C16_BestOpponent ==
    pc = "find_best_opponent" =>
        LET top == {i \in Eligible : \A j \in Eligible : ~RateLess(RateOf(i), RateOf(j))}
        IN  /\ IF Eligible = {} THEN ret = <<>>
               ELSE /\ Len(ret) = 1
                    /\ ret[1].opponent = head_to_head_stats[FirstOf(top)].key
                    /\ SameRate(ret[1].win_rate, RateOf(FirstOf(top)))
            /\ ThreeOfThreeAndOneOfTwo =>
                  /\ Len(ret) = 1 /\ ret[1].opponent = "A"
                  /\ SameRate(ret[1].win_rate, Rate(1, 1))

(***************************************************************************)
(* C17.  find_toughest_opponent reports, among the global opponents with   *)
(* total_matches >= 2, the one whose wins / total_matches is smallest, the *)
(* first in insertion order when several share it, whatever the           *)
(* opponent's name and also when the smallest ratio is 1; it reports none  *)
(* exactly when no opponent has total_matches >= 2.  Over A: 3 of 3,       *)
(* B: 1 of 2 it reports B with ratio 1/2.  Violated as C16 is, by an       *)
(* opponent whose name is the empty string.                                *)
(***************************************************************************)
C17_ToughestOpponent ==
    pc = "find_toughest_opponent" =>
        LET bottom == {i \in Eligible : \A j \in Eligible : ~RateLess(RateOf(j), RateOf(i))}
        IN  /\ IF Eligible = {} THEN ret = <<>>
               ELSE /\ Len(ret) = 1
                    /\ ret[1].opponent = head_to_head_stats[FirstOf(bottom)].key
                    /\ SameRate(ret[1].win_rate, RateOf(FirstOf(bottom)))
            /\ ThreeOfThreeAndOneOfTwo =>
                  /\ Len(ret) = 1 /\ ret[1].opponent = "B"
                  /\ SameRate(ret[1].win_rate, Rate(1, 2))

(***************************************************************************)
(* get_tournament_subtypes, the same seven lines in both variants.         *)
(***************************************************************************)
MaxNames == 3

(* str.startswith *)
StartsWith(s, prefix) ==
    Len(prefix) <= Len(s) /\ SubSeq(s, 1, Len(prefix)) = prefix

(* the characters of the model in the order of their code points *)
Alphabet ==
    <<" ", "-", "0", "1", "2", "3", "4", "5", "6", "7", "8", "9",
      "A", "B", "C", "D", "E", "F", "G", "H", "I", "J", "K", "L", "M",
      "N", "O", "P", "Q", "R", "S", "T", "U", "V", "W", "X", "Y", "Z",
      "a", "b", "c", "d", "e", "f", "g", "h", "i", "j", "k", "l", "m",
      "n", "o", "p", "q", "r", "s", "t", "u", "v", "w", "x", "y", "z">>

ord(c) == CHOOSE i \in DOMAIN Alphabet : Alphabet[i] = c

(* a < b for strings: by code point, a proper prefix first *)
RECURSIVE StrLess(_, _)
StrLess(a, b) ==
    IF b = <<>> THEN FALSE
    ELSE IF a = <<>> THEN TRUE
    ELSE IF Head(a) = Head(b) THEN StrLess(Tail(a), Tail(b))
    ELSE ord(Head(a)) < ord(Head(b))

(* sorted(list) of strings *)
RECURSIVE InsertSorted(_, _)
InsertSorted(sorted, x) ==
    IF sorted = <<>> THEN <<x>>
    ELSE IF StrLess(x, Head(sorted)) THEN <<x>> \o sorted
    ELSE <<Head(sorted)>> \o InsertSorted(Tail(sorted), x)

RECURSIVE sorted(_)
sorted(list) ==
    IF list = <<>> THEN <<>>
    ELSE InsertSorted(sorted(SubSeq(list, 1, Len(list) - 1)), list[Len(list)])

(* the loop over tournament_stats.keys(): labels that start with main_type *)
(* and have " - " somewhere                                                *)
RECURSIVE SubtypesFrom(_, _, _)
SubtypesFrom(tstats, i, main_type) ==
    IF i > Len(tstats) THEN <<>>
    ELSE LET tournament_type == tstats[i].key
         IN  (IF StartsWith(tournament_type, main_type) /\ Contains(tournament_type, SEP)
              THEN <<tournament_type>> ELSE <<>>)
             \o SubtypesFrom(tstats, i + 1, main_type)

get_tournament_subtypes(main_type) ==
    sorted(SubtypesFrom(tournament_stats, 1, main_type))

(* Tournament names for the buckets: two subtypes of "iBC PRO 360", one of *)
(* "iBC 360", and three names of no recognised label, of which one is      *)
(* "Other - 500" and one "Other Weekly Cup - 500".                          *)
SubtypeNames ==
    {PRO_500_SOMETHING, IBC_PRO_360 \o SEP \o N250 \o SPACE \o BLITZ, IBC_250_BLITZ,
     WEEKLY_CUP, S_OTHER \o SEP \o N500, S_OTHER \o SPACE \o WEEKLY_CUP \o SEP \o N500}

SubtypeMatches ==
    {Named(<<Me("WIN"), Opp("u1", "A", "LOSS")>>, name) : name \in SubtypeNames}

SubtypeData == UNION {[1..k -> SubtypeMatches] : k \in 0..MaxNames}

MainTypes == {IBC_PRO_360, IBC_360, S_OTHER}

InitSubtypes ==
    /\ variant \in Variants
    /\ \E records \in SubtypeData : Aggregated(variant, records)
    /\ arg \in {Str(m) : m \in MainTypes}
    /\ ret = <<>>
    /\ pc = "start"
    /\ NoLoopState

GetTournamentSubtypes ==
    /\ variant \in Variants
    /\ Returned("get_tournament_subtypes", get_tournament_subtypes(arg.s))

SpecSubtypes == InitSubtypes /\ [][GetTournamentSubtypes]_vars

(***************************************************************************)
(* C18.  get_tournament_subtypes(mainType) returns, in ascending           *)
(* lexicographic order and each once, exactly the bucket labels that begin *)
(* with mainType immediately followed by " - ": not a label that begins    *)
(* with mainType and goes on with other characters before a later " - ",   *)
(* and not the bucket of mainType itself.  Violated: the code asks only    *)
(* that the label starts with mainType and has " - " anywhere, so for      *)
(* "Other" it returns the bucket "Other Weekly Cup - 500".                 *)
(***************************************************************************)
C18_SubtypesOfMainType ==
    pc = "get_tournament_subtypes" =>
        /\ {ret[i] : i \in DOMAIN ret} =
              {label \in Keys(tournament_stats) : StartsWith(label, arg.s \o SEP)}
        /\ \A i, j \in DOMAIN ret : i < j => StrLess(ret[i], ret[j])
        /\ \A i \in DOMAIN ret : ret[i] # arg.s

(***************************************************************************)
(* load_data and main, the same in both variants up to the names of the    *)
(* steps.  What is at a path: nothing, text that does not parse, a JSON    *)
(* object without match_details, or one whose match_details is a list of   *)
(* records.                                                                *)
(***************************************************************************)
MaxFiles == 2

MissingFile == [exists |-> FALSE, parses |-> FALSE, has_field |-> FALSE, match_details |-> <<>>]
Unparsable == [exists |-> TRUE, parses |-> FALSE, has_field |-> FALSE, match_details |-> <<>>]
NoField == [exists |-> TRUE, parses |-> TRUE, has_field |-> FALSE, match_details |-> <<>>]
WithMatches(records) ==
    [exists |-> TRUE, parses |-> TRUE, has_field |-> TRUE, match_details |-> records]

(* the loop with the try around it: the first failure ends the loading *)
RECURSIVE load_data_StopAtError(_, _)
load_data_StopAtError(self_data, file_paths) ==
    IF file_paths = <<>> THEN self_data
    ELSE LET file == Head(file_paths)
         IN  IF ~file.exists
             THEN load_data_StopAtError(self_data, Tail(file_paths))
             ELSE IF ~file.parses
             THEN self_data
             ELSE IF file.has_field
             THEN load_data_StopAtError(self_data \o file.match_details, Tail(file_paths))
             ELSE load_data_StopAtError(self_data, Tail(file_paths))

(* load_data: for each path in turn, extend self.data when the file exists, *)
(* json.load succeeds and 'match_details' is in the object; otherwise a    *)
(* message is printed and the loop goes on                                 *)
RECURSIVE load_data(_, _)
load_data(self_data, file_paths) ==
    IF file_paths = <<>> THEN self_data
    ELSE LET file == Head(file_paths)
         IN  IF ~file.exists
             THEN load_data(self_data, Tail(file_paths))
             ELSE IF ~file.parses
             THEN load_data(self_data, Tail(file_paths))
             ELSE IF file.has_field
             THEN load_data(self_data \o file.match_details, Tail(file_paths))
             ELSE load_data(self_data, Tail(file_paths))

(* a win against A in "iBC PRO 360 - 500 Something", a loss against B in   *)
(* "iBC 360 - 250 Blitz", a match still in progress                        *)
WonPro == Named(<<Me("WIN"), Opp("u1", "A", "LOSS")>>, PRO_500_SOMETHING)
LostBc == Named(<<Opp("u2", "B", "WIN"), Me("LOSS")>>, IBC_250_BLITZ)
InProgress ==
    [status |-> "IN_PROGRESS", match_mode |-> "DUAL_PLAYER",
     match_user_details |-> "users",
     users |-> <<Me("WIN"), Opp("u1", "A", "LOSS")>>,
     tournament_name |-> Str(IBC_250_BLITZ),
     nested_tournament_name |-> Str(IBC_250_BLITZ)]

Files ==
    {MissingFile, Unparsable, NoField}
    \cup {WithMatches(records) :
            records \in {<<>>, <<WonPro>>, <<InProgress>>, <<WonPro, LostBc>>,
                         <<LostBc, WonPro>>}}

FileLists == UNION {[1..k -> Files] : k \in 0..MaxFiles}

(* the files main writes, in the order in which it writes them *)
ReportSteps(v) ==
    IF v = "h2h" THEN <<"generate_html_report", "generate_csv_report">>
    ELSE <<"generate_detailed_report", "generate_csv_export", "generate_html_report">>

InitMain ==
    /\ variant \in Variants
    /\ arg \in FileLists
    /\ data = <<>>
    /\ head_to_head_stats = <<>>
    /\ tournament_stats = <<>>
    /\ tournament_types = {}
    /\ opponent_pics = <<>>
    /\ player_pic_url = ""
    /\ processed = 0
    /\ ret = <<>>
    /\ pc = "start"
    /\ NoLoopState

(* load_data(data_files) *)
LoadData ==
    /\ pc = "start"
    /\ data' = load_data(data, arg)
    /\ pc' = "loaded"
    /\ trace' = Append(trace, "load_data")
    /\ UNCHANGED <<variant, aggregates, idx, processed, arg, ret, taken, other_results>>

(* `if not data: print(...); return` *)
NoDataReturn ==
    /\ pc = "loaded"
    /\ data = <<>>
    /\ pc' = "done"
    /\ trace' = Append(trace, "no_data")
    /\ UNCHANGED <<variant, data, aggregates, idx, processed, arg, ret, taken,
                   other_results>>

(* the aggregation called whatever was loaded *)
RunCalculate_Unchecked ==
    /\ pc = "loaded"
    /\ \E st \in {calculate_statistics(variant, EmptyStore, data)} :
           /\ head_to_head_stats' = st.h
           /\ tournament_stats' = st.t
           /\ tournament_types' = st.types
           /\ opponent_pics' = st.pics
           /\ player_pic_url' = st.ppic
           /\ processed' = st.processed
           /\ pc' = IF st.pc = "error" THEN "error" ELSE "calculated"
    /\ trace' = Append(trace, "calculate")
    /\ UNCHANGED <<variant, data, idx, arg, ret, taken, other_results>>

(* calculate_head_to_head() / calculate_statistics(), reached with data *)
RunCalculate ==
    /\ pc = "loaded"
    /\ data # <<>>
    /\ \E st \in {calculate_statistics(variant, EmptyStore, data)} :
           /\ head_to_head_stats' = st.h
           /\ tournament_stats' = st.t
           /\ tournament_types' = st.types
           /\ opponent_pics' = st.pics
           /\ player_pic_url' = st.ppic
           /\ processed' = st.processed
           /\ pc' = IF st.pc = "error" THEN "error" ELSE "calculated"
    /\ trace' = Append(trace, "calculate")
    /\ UNCHANGED <<variant, data, idx, arg, ret, taken, other_results>>

(* the three summaries main keeps: print_statistics ("h2h"),               *)
(* print_tournament_summary, which returns get_statistics_summary's value  *)
(* ("report")                                                              *)
summary_of(v, tournament_filter) ==
    IF v = "h2h" THEN print_statistics(tournament_filter)
    ELSE get_statistics_summary(tournament_filter)

PrintSummaries ==
    /\ pc = "calculated"
    /\ ret' = [all_stats |-> summary_of(variant, ALL),
               pro_stats |-> summary_of(variant, IBC_PRO_360),
               bc_stats |-> summary_of(variant, IBC_360)]
    /\ pc' = "summaries"
    /\ trace' = Append(trace, "summaries")
    /\ UNCHANGED <<variant, data, aggregates, idx, processed, arg, taken, other_results>>

(* the subtype listings and, in "h2h", the best and toughest opponent:     *)
(* console output only                                                     *)
ShowSubtypes ==
    /\ pc = "summaries"
    /\ pc' = "reports"
    /\ trace' = Append(trace, "subtypes")
    /\ UNCHANGED <<variant, data, aggregates, idx, processed, arg, ret, taken,
                   other_results>>

(* the next report file is written, or the write raises and main ends *)
WriteReport(ok) ==
    /\ pc = "reports"
    /\ idx < Len(ReportSteps(variant))
    /\ trace' = Append(trace, ReportSteps(variant)[idx + 1])
    /\ IF ok THEN idx' = idx + 1 /\ pc' = pc
             ELSE idx' = idx /\ pc' = "error"
    /\ UNCHANGED <<variant, data, aggregates, processed, arg, ret, taken, other_results>>

(* the closing lines: "h2h" subscripts the three kept summaries, which     *)
(* raises when one of them is None                                         *)
FinalSummary ==
    /\ pc = "reports"
    /\ idx = Len(ReportSteps(variant))
    /\ pc' = IF Null \in {ret.all_stats, ret.pro_stats, ret.bc_stats}
             THEN "error" ELSE "done"
    /\ trace' = Append(trace, "final_summary")
    /\ UNCHANGED <<variant, data, aggregates, idx, processed, arg, ret, taken,
                   other_results>>

NextMain ==
    \/ LoadData
    \/ NoDataReturn
    \/ RunCalculate
    \/ PrintSummaries
    \/ ShowSubtypes
    \/ \E ok \in BOOLEAN : WriteReport(ok)
    \/ FinalSummary

SpecMain == InitMain /\ [][NextMain]_vars

(***************************************************************************)
(* C19.  After load_data, self.data is the match_details of the files      *)
(* that exist, parse and have the field, file after file in the order of   *)
(* the paths and record after record in the order of each file; a missing  *)
(* file, a parse failure and a file without the field add nothing and do   *)
(* not keep a later file from being loaded.                                *)
(***************************************************************************)
Loads(file) == file.exists /\ file.parses /\ file.has_field

(* how many records the files before the i-th contribute *)
RecordsBefore(files, i) ==
    Cardinality(UNION {{<<j, k>> : k \in 1..Len(files[j].match_details)} :
                          j \in {j \in 1..(i - 1) : Loads(files[j])}})

C19_LoadsEveryGoodFileInOrder ==
    pc # "start" =>
        /\ Len(data) = RecordsBefore(arg, Len(arg) + 1)
        /\ \A i \in DOMAIN arg :
              Loads(arg[i]) =>
                  \A k \in DOMAIN arg[i].match_details :
                      data[RecordsBefore(arg, i) + k] = arg[i].match_details[k]

C19_Witness ==
    /\ pc = "loaded"
    /\ arg = <<Unparsable, WithMatches(<<LostBc, WonPro>>)>>
    /\ data = <<LostBc, WonPro>>

(***************************************************************************)
(* C20.  In every run of main: when nothing was loaded, the run ends right *)
(* after the loading, with the aggregation, the summaries and every report *)
(* step never taken; and a report step is taken only after the aggregation *)
(* has completed.  (trace is the list of the steps taken so far.)          *)
(***************************************************************************)
ReportNames ==
    UNION {{ReportSteps(v)[i] : i \in DOMAIN ReportSteps(v)} : v \in Variants}

(* everything main does once the aggregation has run *)
LaterSteps == ReportNames \cup {"summaries", "subtypes", "final_summary"}

C20_EmptyEndsBeforeAggregation ==
    /\ (pc # "start" /\ data = <<>>) =>
          /\ pc \in {"loaded", "done"}
          /\ \A i \in DOMAIN trace : trace[i] \notin LaterSteps \cup {"calculate"}
          /\ aggregates = <<(<<>>), (<<>>), {}, (<<>>), "">>
    /\ \A i \in DOMAIN trace :
          trace[i] \in LaterSteps => \E j \in 1..(i - 1) : trace[j] = "calculate"
    /\ pc = "done" => trace[Len(trace)] \in {"no_data", "final_summary"}

C20_Witness ==
    /\ pc = "done"
    /\ arg = <<MissingFile, NoField>>
    /\ data = <<>>
    /\ trace = <<"load_data", "no_data">>

(***************************************************************************)
(* Records with fields missing or null, handed to the aggregation.         *)
(***************************************************************************)
Sound == Named(<<Me("WIN"), Opp("u1", "A", "LOSS")>>, PRO_500_SOMETHING)

AnomalousMatches ==
    {[Sound EXCEPT !.status = NullKey],
     [Sound EXCEPT !.match_mode = NoKey],
     [Sound EXCEPT !.match_user_details = "missing"],
     [Sound EXCEPT !.match_user_details = "no_users"],
     [Sound EXCEPT !.match_user_details = "null"],
     [Sound EXCEPT !.match_user_details = "null_users"],
     [Sound EXCEPT !.users = <<Me(NullKey),
                               [user_id |-> NullKey, name |-> NullKey,
                                result |-> NoKey, pic_url |-> NoKey]>>],
     [Sound EXCEPT !.tournament_name = Null, !.nested_tournament_name = Null],
     [Sound EXCEPT !.tournament_name = Missing, !.nested_tournament_name = NullDetails]}

AnomalyData == UNION {[1..k -> AnomalousMatches \cup {Sound}] : k \in 0..MaxData}

InitAnomalies ==
    /\ variant \in Variants
    /\ data \in AnomalyData
    /\ head_to_head_stats = <<>>
    /\ tournament_stats = <<>>
    /\ tournament_types = {}
    /\ opponent_pics = <<>>
    /\ player_pic_url = ""
    /\ processed = 0
    /\ pc = "loaded"
    /\ arg = Missing
    /\ ret = NoSnapshot
    /\ NoLoopState

SpecAnomalies == InitAnomalies /\ [][Calculate]_vars

(***************************************************************************)
(* C21.  Whatever fields of a record are missing or null (status,          *)
(* match_mode, match_user_details, users, a participant's user_id, name    *)
(* or result, the tournament name), the aggregation does not end in an     *)
(* error, and it has then passed every record: the global totals add up to *)
(* the number of records that are completed, dual-player and list the      *)
(* tracked player and somebody else.  Violated: a match_user_details or    *)
(* users that holds null raises in both variants, a null                   *)
(* tournament_match_details or tournament_type_details in "report"; the    *)
(* exception leaves the loop and the records after it are never looked at. *)
(***************************************************************************)
C21_NoRecordRaises ==
    /\ pc # "error"
    /\ pc = "calculated" =>
          SumTotals(head_to_head_stats) =
              Cardinality({i \in DOMAIN data : Qualifying(Facts(data[i]))})

(***************************************************************************)
(* C22, as stated.  Every name that contains "iBC PRO 360" contains        *)
(* "iBC 360" as well, and for some such name the classifier of "h2h",      *)
(* which has no `"iBC PRO 360" not in name` guard, returns another pair    *)
(* than the classifier of "report".  Violated at once: "iBC PRO 360" does  *)
(* not contain "iBC 360" (after "iBC " comes "PRO"), and no name of the    *)
(* model tells the two classifiers apart.                                  *)
(***************************************************************************)
C22_VariantsDisagree ==
    /\ (pc = "returned" /\ arg.k = "str" /\ Contains(arg.s, IBC_PRO_360)) =>
          Contains(arg.s, IBC_360)
    /\ \E t \in NameArgs :
          /\ t.k = "str" /\ Contains(t.s, IBC_PRO_360)
          /\ H2H_parse_tournament_type(t) # RG_parse_tournament_type(t)

(***************************************************************************)
(* C22, amended.  The two classifiers return the same pair for every name  *)
(* and for None: both ask for "iBC PRO 360" first, so the second test is   *)
(* reached only by names without it and the guard of "report" changes      *)
(* nothing.  A name that does hold both substrings is "iBC PRO 360" for    *)
(* both.                                                                   *)
(***************************************************************************)
C22_VariantsAgree ==
    pc = "returned" =>
        /\ ret = H2H_parse_tournament_type(arg)
        /\ ret = RG_parse_tournament_type(arg)
        /\ (arg.k = "str" /\ Contains(arg.s, IBC_PRO_360)) => ret[1] = IBC_PRO_360

C22_Witness ==
    /\ pc = "returned" /\ variant = "h2h"
    /\ arg = Str(IBC_360 \o SPACE \o PRO_500_SOMETHING)
    /\ ret = <<IBC_PRO_360, IBC_PRO_360 \o SEP \o N500>>
    /\ ret = RG_parse_tournament_type(arg)

(***************************************************************************)
(* C23.  In calculate_statistics the avatar kept for an opponent name is   *)
(* the one of the first qualifying match against that name: a name enters  *)
(* opponent_pics with the avatar of the participant just counted, every    *)
(* qualifying match leaves its opponent's name in opponent_pics, and an    *)
(* entry, once there, never changes, also when a later match has the same  *)
(* name under another id and so another avatar.                            *)
(***************************************************************************)
C23_FirstAvatarKept ==
    [][variant = "report" =>
        /\ \A n \in Keys(opponent_pics) :
              Has(opponent_pics', n) /\ Lookup(opponent_pics', n) = Lookup(opponent_pics, n)
        /\ \A n \in Keys(opponent_pics') \ Keys(opponent_pics) :
              /\ Qualifying(taken') /\ n \in taken'.opp_names
              /\ Lookup(opponent_pics', n) \in {PicOf(i) : i \in taken'.opp_ids}
        /\ Qualifying(taken') => \A n \in taken'.opp_names : Has(opponent_pics', n)]_vars

(* the second match against the name A is u1's; the avatar kept is u2's,   *)
(* from the first                                                          *)
C23_Witness ==
    /\ variant = "report" /\ idx = 2 /\ pc = "counted"
    /\ Qualifying(taken) /\ taken.opp_ids = {"u1"} /\ taken.opp_names = {"A"}
    /\ opponent_pics = <<[key |-> "A", val |-> "u2.png"]>>

(***************************************************************************)
(* C24.  tournament_types is exactly the set of mainType labels of the     *)
(* qualifying matches processed so far: empty before the first record,     *)
(* grown by the label the classifier returned for each qualifying match,   *)
(* and left alone by every other record.  It holds none but "iBC PRO 360", *)
(* "iBC 360" and "Other", never loses a label, and every label in it names *)
(* a bucket of tournament_stats with at least one opponent.                *)
(***************************************************************************)
C24_TypesNow ==
    /\ idx = 0 => tournament_types = {}
    /\ tournament_types \subseteq {IBC_PRO_360, IBC_360, S_OTHER}
    /\ \A l \in tournament_types :
          Has(tournament_stats, l) /\ Lookup(tournament_stats, l) # <<>>

C24_TypesStep ==
    Took =>
        /\ Qualifying(taken') =>
              /\ pc' = "counted"
              /\ tournament_types' = tournament_types \cup {ret'[1]}
        /\ ~Qualifying(taken') => tournament_types' = tournament_types

C24_TypesAreMainTypes == [](C24_TypesNow) /\ [][C24_TypesStep]_vars

(* a match in a PRO tournament, then one in a plain "iBC 360" tournament *)
C24_Witness ==
    /\ idx = 2 /\ pc = "counted" /\ Qualifying(taken)
    /\ ret[1] = IBC_360
    /\ tournament_types = {IBC_PRO_360, IBC_360}

(***************************************************************************)
(* C25.  For every opponent and each of wins, losses and total_matches,    *)
(* the global record equals the sum of that opponent's records over the    *)
(* mainType buckets named in tournament_types, and no record of any bucket *)
(* exceeds the global record of the same opponent.  Violated: for the      *)
(* tournament name "Other" the mainType bucket and the subType bucket are  *)
(* the same, and its record is raised twice for the one match.             *)
(***************************************************************************)
Counters == {"wins", "losses", "total_matches"}

InTypes(l, n, f) ==
    IF l \in tournament_types
    THEN RecAt(head_to_head_stats, tournament_stats, <<l, n>>)[f] ELSE 0

C25_GlobalIsSumOfMainBuckets ==
    /\ \A n \in Keys(head_to_head_stats) : \A f \in Counters :
          Lookup(head_to_head_stats, n)[f] =
              InTypes(IBC_PRO_360, n, f) + InTypes(IBC_360, n, f) + InTypes(S_OTHER, n, f)
    /\ \A k \in KeysBefore : \A f \in Counters :
          Before(k)[f] <= Before(<<GLOBAL, k[2]>>)[f]

(***************************************************************************)
(* Whole runs over records that qualify and records that are skipped for   *)
(* each of the reasons the loop knows: not completed, not dual-player, the *)
(* tracked player not listed, nobody else listed.                          *)
(***************************************************************************)
CountMatches ==
    {Named(<<Me("WIN"), Opp("u1", "A", "LOSS")>>, PRO_500_SOMETHING),
     Named(<<Opp("u2", "B", "WIN"), Me("LOSS")>>, IBC_250_BLITZ),
     Named(<<Me(NoKey), Opp("u2", "A", NoKey)>>, S_OTHER),
     [Sound EXCEPT !.status = "IN_PROGRESS"],
     [Sound EXCEPT !.match_mode = "SINGLE_PLAYER"],
     [Sound EXCEPT !.users = <<Me("WIN")>>],
     [Sound EXCEPT !.users = <<Opp("u1", "A", "LOSS"), Opp("u2", "B", "WIN")>>]}

CountData == UNION {[1..k -> CountMatches] : k \in 0..MaxData}

InitCounting ==
    /\ variant \in Variants
    /\ data \in CountData
    /\ head_to_head_stats = <<>>
    /\ tournament_stats = <<>>
    /\ tournament_types = {}
    /\ opponent_pics = <<>>
    /\ player_pic_url = ""
    /\ pc = "loaded"
    /\ arg = Missing
    /\ ret = NoSnapshot
    /\ processed = 0
    /\ NoLoopState

SpecCounting == InitCounting /\ [][Calculate]_vars

(***************************************************************************)
(* C26.  After the aggregation the total_matches of the global records add *)
(* up to the number of qualifying matches of the input, which in           *)
(* calculate_statistics is also the processed count; the skipped records   *)
(* are counted nowhere: the aggregates are those of the input with the     *)
(* skipped records taken out.                                              *)
(***************************************************************************)
QualifyingIn(records) == {i \in DOMAIN records : Qualifying(Facts(records[i]))}
IsQualifying(match) == Qualifying(Facts(match))

C26_TotalsCountQualifying ==
    pc = "calculated" =>
        /\ SumTotals(head_to_head_stats) = Cardinality(QualifyingIn(data))
        /\ variant = "report" => processed = Cardinality(QualifyingIn(data))
        /\ variant = "h2h" => processed = 0
        /\ LET st == calculate_statistics(variant,
                         [Store EXCEPT !.h = <<>>, !.t = <<>>, !.types = {}, !.pics = <<>>,
                                       !.ppic = "", !.processed = 0, !.pc = "loaded"],
                         SelectSeq(data, IsQualifying))
           IN  /\ st.h = head_to_head_stats
               /\ st.t = tournament_stats
               /\ st.types = tournament_types

(* a record in progress and one without the tracked player around the one  *)
(* match that counts                                                       *)
C26_Witness ==
    /\ pc = "calculated" /\ variant = "report"
    /\ Len(data) = 3
    /\ QualifyingIn(data) = {2}
    /\ data[1].status = "IN_PROGRESS" /\ Tracked(data[3]) = {}
    /\ processed = 1 /\ SumTotals(head_to_head_stats) = 1

(***************************************************************************)
(* C27.  In main of cricket_head_to_head, whenever loading gave at least   *)
(* one record, the closing summary ends the run without an error, whatever *)
(* the aggregates hold.  Violated: print_statistics returns None for an    *)
(* empty aggregate or bucket, and the closing lines subscript all three    *)
(* returned values.                                                        *)
(***************************************************************************)
C27_MainEndsWithoutError ==
    (/\ variant = "h2h" /\ data # <<>>
     /\ trace # <<>> /\ trace[Len(trace)] = "final_summary") => pc = "done"

(***************************************************************************)
(* The queries as operations on the two defaultdicts.  A read with         *)
(* d.get(k, default) or after `k in d` leaves d alone; a read with d[k]    *)
(* calls the default factory for an absent key and stores what it made.    *)
(***************************************************************************)
MaxQueries == 2

(* d after d[k], by mistake for d.get(k, {}) *)
dict_get_Subscript(d, k) == IF Has(d, k) THEN d ELSE Put(d, k, <<>>)

(* d after d.get(k, default) *)
dict_get(d, k) == d

(* d after d[k], d a defaultdict whose factory gives zero *)
dict_subscript(d, k, zero) == IF Has(d, k) THEN d ELSE Put(d, k, zero)

(* tournament_stats once stats_data has been picked *)
after_stats_data(tournament_filter) ==
    IF tournament_filter = ALL THEN tournament_stats
    ELSE dict_get(tournament_stats, tournament_filter)

(* get_detailed_stats: for a name, the record found or "No data found" is  *)
(* printed and None returned; for None or "" a copy of the global dict is  *)
(* returned                                                                *)
NoName(opponent_name) == opponent_name \in {"", NullKey}

get_detailed_stats(opponent_name) ==
    IF ~NoName(opponent_name)
    THEN [value |-> Null,
          printed |-> IF Has(head_to_head_stats, opponent_name)
                      THEN <<Lookup(head_to_head_stats, opponent_name)>> ELSE <<>>]
    ELSE [value |-> head_to_head_stats, printed |-> <<>>]

after_get_detailed_stats(opponent_name) ==
    IF ~NoName(opponent_name) /\ Has(head_to_head_stats, opponent_name)
    THEN dict_subscript(head_to_head_stats, opponent_name, ZeroRec)
    ELSE head_to_head_stats

(* the global dict after the scan and the subscripts in the printed line *)
after_matchup(printed) ==
    IF printed # <<>> THEN dict_subscript(head_to_head_stats, printed[1].opponent, ZeroRec)
    ELSE head_to_head_stats

QueryMatches == {WonPro, LostBc, InProgress}
QueryData == UNION {[1..k -> QueryMatches] : k \in 0..MaxData}

(* a filter and an opponent name for the calls: labels and names that were *)
(* observed, that never were, the empty name and None                      *)
QueryArgs ==
    {[tournament_filter |-> f, opponent_name |-> n] :
        f \in Selectors, n \in {"A", "Z", "", NullKey}}

InitQueries ==
    /\ variant \in Variants
    /\ \E records \in QueryData : Aggregated(variant, records)
    /\ arg \in QueryArgs
    /\ ret = <<>>
    /\ pc = "start"
    /\ NoLoopState

(* one call of a query on the aggregated instance *)
Queried(name, value, h_after, t_after) ==
    /\ idx < MaxQueries
    /\ idx' = idx + 1
    /\ ret' = value
    /\ pc' = name
    /\ head_to_head_stats' = h_after
    /\ tournament_stats' = t_after
    /\ UNCHANGED <<variant, data, tournament_types, opponent_pics, player_pic_url,
                   processed, arg, taken, other_results, trace>>

QueryPrintStatistics ==
    /\ variant = "h2h"
    /\ Queried("print_statistics", print_statistics(arg.tournament_filter),
               head_to_head_stats, after_stats_data(arg.tournament_filter))

QueryGetStatisticsData ==
    /\ variant = "h2h"
    /\ Queried("_get_statistics_data", get_statistics_data(arg.tournament_filter),
               head_to_head_stats, after_stats_data(arg.tournament_filter))

QueryGetStatisticsSummary ==
    /\ variant = "report"
    /\ Queried("get_statistics_summary", get_statistics_summary(arg.tournament_filter),
               head_to_head_stats, after_stats_data(arg.tournament_filter))

QueryGetDetailedStats ==
    /\ variant = "h2h"
    /\ Queried("get_detailed_stats", get_detailed_stats(arg.opponent_name),
               after_get_detailed_stats(arg.opponent_name), tournament_stats)

QueryFindBestOpponent ==
    /\ variant = "h2h"
    /\ Queried("find_best_opponent", find_best_opponent,
               after_matchup(find_best_opponent), tournament_stats)

QueryFindToughestOpponent ==
    /\ variant = "h2h"
    /\ Queried("find_toughest_opponent", find_toughest_opponent,
               after_matchup(find_toughest_opponent), tournament_stats)

(* the keys of tournament_stats are iterated, none is looked up *)
QueryGetTournamentSubtypes ==
    /\ arg.tournament_filter # ALL
    /\ Queried("get_tournament_subtypes", get_tournament_subtypes(arg.tournament_filter),
               head_to_head_stats, tournament_stats)

NextQueries ==
    \/ QueryPrintStatistics
    \/ QueryGetStatisticsData
    \/ QueryGetStatisticsSummary
    \/ QueryGetDetailedStats
    \/ QueryFindBestOpponent
    \/ QueryFindToughestOpponent
    \/ QueryGetTournamentSubtypes

SpecQueries == InitQueries /\ [][NextQueries]_vars

(***************************************************************************)
(* C28.  The queries leave the aggregate state as it was, whatever they    *)
(* are asked: a label or an opponent never observed gets no bucket and no  *)
(* record, so no bucket is empty and every stored record has               *)
(* total_matches >= 1.                                                     *)
(***************************************************************************)
C28_RecordsNow ==
    /\ \A k \in KeysBefore : Before(k).total_matches >= 1
    /\ \A i \in DOMAIN tournament_stats : tournament_stats[i].val # <<>>

C28_QueriesChangeNothing == [](C28_RecordsNow) /\ [][UNCHANGED aggregates]_vars

(* asked for a label and a name no record has, with records aggregated *)
C28_Witness ==
    /\ variant = "h2h" /\ idx = 2 /\ pc = "get_detailed_stats"
    /\ head_to_head_stats # <<>>
    /\ arg.tournament_filter = WEEKLY_CUP /\ ~Has(tournament_stats, WEEKLY_CUP)
    /\ arg.opponent_name = "Z" /\ ~Has(head_to_head_stats, "Z")
    /\ ret = [value |-> Null, printed |-> <<>>]

(***************************************************************************)
(* Whole runs over records with three participants in several orders, two  *)
(* of them under one name, and over two-participant records.               *)
(***************************************************************************)
ParticipantLists ==
    {<<Opp("u1", "A", "LOSS"), Me("WIN"), Opp("u2", "B", "LOSS")>>,
     <<Me("WIN"), Opp("u2", "B", "LOSS"), Opp("u1", "A", "LOSS")>>,
     <<Opp("u2", "B", "WIN"), Opp("u1", "A", "WIN"), Me("LOSS")>>,
     <<Opp("u1", "A", "DRAW"), Me("DRAW"), Opp("u2", "A", "DRAW")>>,
     <<Me("WIN"), Opp("u1", "A", "LOSS")>>,
     <<Opp("u2", "B", "WIN"), Me("LOSS")>>,
     <<Me(NoKey), Opp("u2", "B", "WIN")>>}

ParticipantMatches ==
    {Named(u, PRO_500_SOMETHING) : u \in ParticipantLists}
    \cup {Named(<<Opp("u1", "A", "LOSS"), Me("WIN"), Opp("u2", "B", "LOSS")>>, S_OTHER)}

ParticipantData == UNION {[1..k -> ParticipantMatches] : k \in 0..MaxData}

InitParticipants ==
    /\ variant \in Variants
    /\ data \in ParticipantData
    /\ head_to_head_stats = <<>>
    /\ tournament_stats = <<>>
    /\ tournament_types = {}
    /\ opponent_pics = <<>>
    /\ player_pic_url = ""
    /\ pc = "loaded"
    /\ arg = Missing
    /\ ret = NoSnapshot
    /\ processed = 0
    /\ NoLoopState

SpecParticipants == InitParticipants /\ [][Calculate]_vars

(***************************************************************************)
(* C29.  A COMPLETED DUAL_PLAYER record that lists the tracked player and  *)
(* more than one other participant is counted once, for the last other     *)
(* participant in list order: the global total of every name is the number *)
(* of qualifying records whose last other participant has that name, the   *)
(* totals add up to the number of qualifying records, and no bucket has a  *)
(* record for a name that was never last.                                  *)
(***************************************************************************)
LastOther(match) ==
    UsersOf(match)[CHOOSE i \in Others(match) : \A j \in Others(match) : j <= i]

CreditedTo(records, n) ==
    {i \in QualifyingIn(records) : FiledAs(LastOther(records[i]).name) = n}

ManyParticipants(records) ==
    {i \in QualifyingIn(records) : Len(UsersOf(records[i])) > 2}

C29_LastOtherParticipantCredited ==
    pc = "calculated" =>
        /\ \A n \in {"A", "B"} :
              GetDefault(head_to_head_stats, n, ZeroRec).total_matches =
                  Cardinality(CreditedTo(data, n))
        /\ SumTotals(head_to_head_stats) = Cardinality(QualifyingIn(data))
        /\ \A k \in KeysBefore : CreditedTo(data, k[2]) # {}

(* A and B both took part in the one record; B was listed last and is the  *)
(* only one with a record                                                  *)
C29_Witness ==
    /\ pc = "calculated" /\ Len(data) = 1
    /\ ManyParticipants(data) = {1}
    /\ data[1].users[1].name = "A" /\ LastOther(data[1]).name = "B"
    /\ Keys(head_to_head_stats) = {"B"}
    /\ Lookup(head_to_head_stats, "B") = [wins |-> 1, losses |-> 0, total_matches |-> 1]

(***************************************************************************)
(* C30.  What a qualifying two-participant match adds depends on the       *)
(* tracked player's own result only: with the two participants of every    *)
(* such record in the other order, or with the opponent's result replaced  *)
(* by any value, the aggregation ends with the same counters in the global *)
(* aggregate and in every bucket.                                          *)
(***************************************************************************)
TwoParticipants(match) == IsQualifying(match) /\ Len(UsersOf(match)) = 2

Swapped(match) ==
    IF TwoParticipants(match)
    THEN [match EXCEPT !.users = <<match.users[2], match.users[1]>>]
    ELSE match

WithOpponentResult(match, r) ==
    IF TwoParticipants(match)
    THEN [match EXCEPT !.users =
            [i \in DOMAIN match.users |->
                IF match.users[i].user_id = PLAYER_ID THEN match.users[i]
                ELSE [match.users[i] EXCEPT !.result = r]]]
    ELSE match

CountersOf(records) ==
    LET st == calculate_statistics(variant,
                  [Store EXCEPT !.h = <<>>, !.t = <<>>, !.types = {}, !.pics = <<>>,
                                !.ppic = "", !.processed = 0, !.pc = "loaded"],
                  records)
    IN  <<st.h, st.t>>

C30_OwnResultOnly ==
    pc = "calculated" =>
        /\ CountersOf([i \in DOMAIN data |-> Swapped(data[i])]) =
              <<head_to_head_stats, tournament_stats>>
        /\ \A r \in Results \cup {NullKey} :
              CountersOf([i \in DOMAIN data |-> WithOpponentResult(data[i], r)]) =
                  <<head_to_head_stats, tournament_stats>>

(* a win over A, listed first, and a loss to B, listed last, each counted  *)
(* as the tracked player's result says                                     *)
C30_Witness ==
    /\ pc = "calculated" /\ Len(data) = 2
    /\ \A i \in DOMAIN data : TwoParticipants(data[i])
    /\ data[1].users[1].user_id = PLAYER_ID /\ data[2].users[2].user_id = PLAYER_ID
    /\ Keys(head_to_head_stats) = {"A", "B"}
    /\ Lookup(head_to_head_stats, "A") = [wins |-> 1, losses |-> 0, total_matches |-> 1]
    /\ Lookup(head_to_head_stats, "B") = [wins |-> 0, losses |-> 1, total_matches |-> 1]

=============================================================================
